---- MODULE Spec2Model ----
(***************************************************************************)
(* State-machine model of the riyal_contract / mercle_token claim program. *)
(*                                                                         *)
(* The host ledger runs one instruction to completion before the next and  *)
(* discards every write of a failed one, so each handler is one atomic     *)
(* action.  The outcome of the instruction just processed is kept in       *)
(* `receipt` (with the arguments it ran on and the state it started from)  *)
(* until the client has read it; properties of a single call are stated    *)
(* over the receipt.                                                       *)
(***************************************************************************)
EXTENDS Integers, Sequences, FiniteSets, TLC

VARIABLES
    clock,        \* Clock::get()?.unix_timestamp
    token_state,  \* the TokenState account (seeds = ["token_state"])
    user_data,    \* the UserData accounts (seeds = ["user_data", user])
    ledger,       \* the token ledger's token accounts
    receipt,      \* outcome of the instruction just processed
    consumed,     \* per user: the nonces taken by successful claims, in order
    redeemed,     \* a successful claim an observer copied from the chain
    granted       \* per user: the sum of claim_amount over the successful claims

vars == <<clock, token_state, user_data, ledger, receipt, consumed, redeemed, granted>>

(***************************************************************************)
(* Keys.  A Pubkey is 32 bytes; the model names a handful of them and      *)
(* gives each its own byte pattern.  "default" is Pubkey::default().       *)
(***************************************************************************)
KeyTag ==
    [k \in {"default", "admin", "alice", "bob", "mint1", "mint2",
            "program", "program2", "ed25519", "memo", "upgrader"} |->
        CASE k = "default"  -> 0
          [] k = "admin"    -> 1
          [] k = "alice"    -> 2
          [] k = "bob"      -> 3
          [] k = "mint1"    -> 4
          [] k = "mint2"    -> 5
          [] k = "program"  -> 6
          [] k = "program2" -> 7
          [] k = "ed25519"  -> 8
          [] k = "memo"     -> 9
          [] k = "upgrader" -> 10]

Pubkeys == DOMAIN KeyTag

PubkeyLen == 32
SignatureLen == 64
HeaderLen == 16

to_bytes(k) == [i \in 1..PubkeyLen |-> KeyTag[k]]

ID == "program"
ed25519_program_ID == "ed25519"

(***************************************************************************)
(* 64-bit integers.  A u64 or i64 is held as the integer with the same     *)
(* two's-complement bit pattern: 0, 1, 2, ... and, for a u64, -1 is        *)
(* u64::MAX, -2 is u64::MAX - 1.  Borsh writes both as 8 little-endian     *)
(* bytes of that pattern.                                                  *)
(***************************************************************************)
RECURSIVE to_le_bytes(_, _)
to_le_bytes(n, width) ==
    IF width = 0 THEN <<>>
    ELSE <<n % 256>> \o to_le_bytes(n \div 256, width - 1)

le_bytes_64(n) ==
    IF n >= 0 THEN to_le_bytes(n, 8)
    ELSE LET m == to_le_bytes(-n - 1, 8) IN [i \in 1..8 |-> 255 - m[i]]

\* u64::MAX, as its bit pattern.
u64_MAX == -1

\* An addition that wraps: u64::MAX + 1 is 0.
wrapping_add_u64(a, b) == [some |-> TRUE, value |-> a + b]

\* u64::checked_add: -1 (the pattern of u64::MAX) is the last value; Overflow is None.
checked_add_u64(a, b) ==
    IF a < 0 /\ a + b >= 0 THEN [some |-> FALSE, value |-> 0]
    ELSE [some |-> TRUE, value |-> a + b]

\* A serialization that leaves the nonce out.
try_to_vec_without_nonce(payload) ==
    to_bytes(payload.user_address)
        \o le_bytes_64(payload.claim_amount)
        \o le_bytes_64(payload.expiry_time)

\* ClaimPayload::try_to_vec(): the fields in declaration order.
try_to_vec(payload) ==
    to_bytes(payload.user_address)
        \o le_bytes_64(payload.claim_amount)
        \o le_bytes_64(payload.expiry_time)
        \o le_bytes_64(payload.nonce)

\* b"MERCLE_CLAIM_V1"
DomainTag == <<77, 69, 82, 67, 76, 69, 95, 67, 76, 65, 73, 77, 95, 86, 49>>

\* "MERCLE_CLAIM_V1" | program_id | payload_bytes
build_message(program_id, payload) ==
    DomainTag \o to_bytes(program_id) \o try_to_vec(payload)

(***************************************************************************)
(* The Ed25519 record parser and the scan over preceding instructions.     *)
(* data is the instruction's byte string; offsets are 0-based as in the    *)
(* source, sequences 1-based.  Option::None of a read is -1; the parser's  *)
(* and the loader's None is a record with some = FALSE.                    *)
(***************************************************************************)
read_u8(data, offset) ==
    IF offset < Len(data) THEN data[offset + 1] ELSE -1

read_u16_le(data, offset) ==
    IF offset + 2 <= Len(data)
    THEN data[offset + 1] + 256 * data[offset + 2]
    ELSE -1

NoRecord == [some |-> FALSE]

\* The parser without the bounds check of the message.
parse_ed25519_single_unchecked_message(data) ==
    IF Len(data) < HeaderLen THEN NoRecord
    ELSE IF read_u8(data, 0) # 1 THEN NoRecord
    ELSE LET sig_off  == read_u16_le(data, 2)
             pk_off   == read_u16_le(data, 6)
             msg_off  == read_u16_le(data, 10)
             msg_size == read_u16_le(data, 12)
         IN  IF ~(pk_off + PubkeyLen <= Len(data)) THEN NoRecord
             ELSE IF ~(sig_off + SignatureLen <= Len(data)) THEN NoRecord
             ELSE [some |-> TRUE,
                   pk   |-> SubSeq(data, pk_off + 1, pk_off + PubkeyLen),
                   sig  |-> SubSeq(data, sig_off + 1, sig_off + SignatureLen),
                   msg  |-> IF msg_off + msg_size <= Len(data)
                            THEN SubSeq(data, msg_off + 1, msg_off + msg_size)
                            ELSE <<>>]

parse_ed25519_single(data) ==
    IF Len(data) < HeaderLen THEN NoRecord
    ELSE IF read_u8(data, 0) # 1 THEN NoRecord
    ELSE LET sig_off  == read_u16_le(data, 2)
             pk_off   == read_u16_le(data, 6)
             msg_off  == read_u16_le(data, 10)
             msg_size == read_u16_le(data, 12)
         IN  IF ~(pk_off + PubkeyLen <= Len(data)) THEN NoRecord
             ELSE IF ~(sig_off + SignatureLen <= Len(data)) THEN NoRecord
             ELSE IF ~(msg_off + msg_size <= Len(data)) THEN NoRecord
             ELSE [some |-> TRUE,
                   pk   |-> SubSeq(data, pk_off + 1, pk_off + PubkeyLen),
                   sig  |-> SubSeq(data, sig_off + 1, sig_off + SignatureLen),
                   msg  |-> SubSeq(data, msg_off + 1, msg_off + msg_size)]

\* load_instruction_at_checked(i, sysvar): the i-th instruction of the transaction.
load_instruction_at_checked(i, tx) ==
    IF i < Len(tx) THEN [some |-> TRUE, ix |-> tx[i + 1]] ELSE [some |-> FALSE]

\* The loop body with the comparison of the public key left out.
scan_step_any_signer(tx, i, message_bytes, admin_signature, admin_pubkey, admin_verified) ==
    LET loaded == load_instruction_at_checked(i, tx) IN
    IF ~loaded.some THEN admin_verified
    ELSE IF loaded.ix.program_id # ed25519_program_ID THEN admin_verified
    ELSE LET rec == parse_ed25519_single(loaded.ix.data) IN
         IF ~rec.some THEN admin_verified
         ELSE IF rec.msg = message_bytes /\ ~admin_verified /\ rec.sig = admin_signature
              THEN TRUE
              ELSE admin_verified

\* The loop body with the comparison of the message left out.
scan_step_any_message(tx, i, message_bytes, admin_signature, admin_pubkey, admin_verified) ==
    LET loaded == load_instruction_at_checked(i, tx) IN
    IF ~loaded.some THEN admin_verified
    ELSE IF loaded.ix.program_id # ed25519_program_ID THEN admin_verified
    ELSE LET rec == parse_ed25519_single(loaded.ix.data) IN
         IF ~rec.some THEN admin_verified
         ELSE IF ~admin_verified /\ rec.pk = to_bytes(admin_pubkey) /\ rec.sig = admin_signature
              THEN TRUE
              ELSE admin_verified

\* The loop body when the last parsed record decides.
scan_step_last_record_decides(tx, i, message_bytes, admin_signature, admin_pubkey, admin_verified) ==
    LET loaded == load_instruction_at_checked(i, tx) IN
    IF ~loaded.some THEN admin_verified
    ELSE IF loaded.ix.program_id # ed25519_program_ID THEN admin_verified
    ELSE LET rec == parse_ed25519_single(loaded.ix.data) IN
         IF ~rec.some THEN admin_verified
         ELSE rec.msg = message_bytes
                 /\ rec.pk = to_bytes(admin_pubkey)
                 /\ rec.sig = admin_signature

\* The body of the for loop: the flag after looking at instruction i.
scan_step(tx, i, message_bytes, admin_signature, admin_pubkey, admin_verified) ==
    LET loaded == load_instruction_at_checked(i, tx) IN
    IF ~loaded.some THEN admin_verified
    ELSE IF loaded.ix.program_id # ed25519_program_ID THEN admin_verified
    ELSE LET rec == parse_ed25519_single(loaded.ix.data) IN
         IF ~rec.some THEN admin_verified
         ELSE IF rec.msg = message_bytes
                 /\ ~admin_verified
                 /\ rec.pk = to_bytes(admin_pubkey)
                 /\ rec.sig = admin_signature
              THEN TRUE
              ELSE admin_verified

RECURSIVE scan(_, _, _, _, _, _, _)
scan(tx, i, current_index, message_bytes, admin_signature, admin_pubkey, admin_verified) ==
    IF i >= current_index THEN admin_verified
    ELSE scan(tx, i + 1, current_index, message_bytes, admin_signature, admin_pubkey,
              scan_step(tx, i, message_bytes, admin_signature, admin_pubkey, admin_verified))

\* The verifier when the scan runs over the whole transaction.
verify_admin_signature_whole_transaction(tx, current_index, message_bytes, admin_signature, admin_pubkey) ==
    IF scan(tx, 0, Len(tx), message_bytes, admin_signature, admin_pubkey, FALSE)
    THEN "Ok"
    ELSE "AdminSignatureNotVerified"

verify_admin_signature_only(tx, current_index, message_bytes, admin_signature, admin_pubkey) ==
    IF scan(tx, 0, current_index, message_bytes, admin_signature, admin_pubkey, FALSE)
    THEN "Ok"
    ELSE "AdminSignatureNotVerified"

(***************************************************************************)
(* The copy of the verifier in mercle_token.  Its parser adds offsets      *)
(* without checked_add (a usize holds any sum of two u16 values), and its  *)
(* loop sets the flag at every match.                                      *)
(***************************************************************************)
parse(d) ==
    IF Len(d) < 16 \/ read_u8(d, 0) # 1 THEN NoRecord
    ELSE LET sig_off == read_u16_le(d, 2)
             pk_off  == read_u16_le(d, 6)
             msg_off == read_u16_le(d, 10)
             msg_sz  == read_u16_le(d, 12)
         IN  IF pk_off + 32 > Len(d) \/ sig_off + 64 > Len(d) \/ msg_off + msg_sz > Len(d)
             THEN NoRecord
             ELSE [some |-> TRUE,
                   pk   |-> SubSeq(d, pk_off + 1, pk_off + 32),
                   sig  |-> SubSeq(d, sig_off + 1, sig_off + 64),
                   msg  |-> SubSeq(d, msg_off + 1, msg_off + msg_sz)]

\* The loop body of the copy when a later record that does not match clears
\* the flag.
mercle_token_scan_step_forgets(tx, i, message_bytes, admin_signature, admin_pubkey, verified) ==
    LET loaded == load_instruction_at_checked(i, tx) IN
    IF ~loaded.some THEN verified
    ELSE IF loaded.ix.program_id # ed25519_program_ID THEN verified
    ELSE LET rec == parse(loaded.ix.data) IN
         IF ~rec.some THEN verified
         ELSE rec.msg = message_bytes /\ rec.pk = to_bytes(admin_pubkey)
                 /\ rec.sig = admin_signature

mercle_token_scan_step(tx, i, message_bytes, admin_signature, admin_pubkey, verified) ==
    LET loaded == load_instruction_at_checked(i, tx) IN
    IF ~loaded.some THEN verified
    ELSE IF loaded.ix.program_id # ed25519_program_ID THEN verified
    ELSE LET rec == parse(loaded.ix.data) IN
         IF ~rec.some THEN verified
         ELSE IF rec.msg = message_bytes /\ rec.pk = to_bytes(admin_pubkey)
                 /\ rec.sig = admin_signature
              THEN TRUE
              ELSE verified

RECURSIVE mercle_token_scan(_, _, _, _, _, _, _)
mercle_token_scan(tx, i, idx, message_bytes, admin_signature, admin_pubkey, verified) ==
    IF i >= idx THEN verified
    ELSE mercle_token_scan(tx, i + 1, idx, message_bytes, admin_signature, admin_pubkey,
                           mercle_token_scan_step(tx, i, message_bytes, admin_signature,
                                                  admin_pubkey, verified))

mercle_token_verify_admin_signature_only(tx, idx, message_bytes, admin_signature, admin_pubkey) ==
    IF mercle_token_scan(tx, 0, idx, message_bytes, admin_signature, admin_pubkey, FALSE)
    THEN "Ok"
    ELSE "AdminSignatureNotVerified"

(***************************************************************************)
(* The environment of a claim: Ed25519 signatures, the client that builds  *)
(* the transaction, and the platform's Ed25519 precompile.                 *)
(***************************************************************************)

\* A digest standing for the signed hash of a message: a position-weighted
\* sum of its bytes (computed by halves).
RECURSIVE Digest(_, _, _)
Digest(msg, lo, hi) ==
    IF lo > hi THEN 0
    ELSE IF lo = hi THEN ((msg[lo] + 1) * ((lo * lo * 31 + lo * 7919 + 13) % 65521)) % 16777213
    ELSE LET mid == (lo + hi) \div 2
         IN  (Digest(msg, lo, mid) + Digest(msg, mid + 1, hi)) % 16777213

\* The one signature the holder of k's secret key makes over msg.
Sign(k, msg) ==
    <<KeyTag[k] + 1>> \o to_le_bytes(Digest(msg, 1, Len(msg)), 4)
        \o [i \in 1..(SignatureLen - 5) |-> 0]

ed25519_verify(pk, sig, msg) ==
    \E k \in Pubkeys : pk = to_bytes(k) /\ sig = Sign(k, msg)

\* Signature bytes as a client obtains them: made by a key holder over the
\* message of a payload, or bytes nobody signed (all zero, or filler).
signature_bytes(s) ==
    IF s.by = "nobody" THEN [i \in 1..SignatureLen |-> s.fill]
    ELSE Sign(s.by, build_message(s.program, s.payload))

\* u16::MAX in an index field: "this instruction".
ThisInstruction == 256 * 256 - 1

u16_le(n) == to_le_bytes(n, 2)

\* The 16-byte header of a one-signature record.
record_header(num, sig_off, sig_ix, pk_off, pk_ix, msg_off, msg_size, msg_ix) ==
    <<num, 0>> \o u16_le(sig_off) \o u16_le(sig_ix) \o u16_le(pk_off) \o u16_le(pk_ix)
        \o u16_le(msg_off) \o u16_le(msg_size) \o u16_le(msg_ix)

\* The record web3.js createInstructionWithPublicKey builds:
\* header | publicKey (32) | signature (64) | message.
record_data(num, ix_index, pk, sig, msg) ==
    record_header(num,
                  HeaderLen + PubkeyLen, ix_index,
                  HeaderLen, ix_index,
                  HeaderLen + PubkeyLen + SignatureLen, Len(msg), ix_index)
        \o pk \o sig \o msg

\* A record of two signatures, both entries over the same key, signature and
\* message: a 2-byte count, two 14-byte entries, then the data.
double_record_data(pk, sig, msg) ==
    LET base == 2 + 14 + 14
        entry == record_header(2, base + PubkeyLen, ThisInstruction, base, ThisInstruction,
                               base + PubkeyLen + SignatureLen, Len(msg), ThisInstruction)
    IN  entry \o SubSeq(entry, 3, HeaderLen) \o pk \o sig \o msg

\* An instruction of a transaction, from what the client put in it.
Instruction(d) ==
    CASE d.kind = "claim" ->
            [program_id |-> ID, data |-> <<>>]
      [] d.kind = "ed25519" ->
            [program_id |-> ed25519_program_ID,
             data |-> record_data(1, ThisInstruction, to_bytes(d.pk),
                                  signature_bytes(d.sig),
                                  build_message(d.program, d.payload))]
      [] d.kind = "memo" ->
            [program_id |-> "memo",
             data |-> record_data(1, ThisInstruction, to_bytes(d.pk),
                                  signature_bytes(d.sig),
                                  build_message(d.program, d.payload))]
      [] d.kind = "empty" ->
            [program_id |-> ed25519_program_ID, data |-> <<0, 0>>]
      [] d.kind = "elsewhere" ->
            [program_id |-> ed25519_program_ID,
             data |-> record_data(1, d.ix_index, to_bytes(d.pk),
                                  signature_bytes(d.sig),
                                  build_message(d.program, d.payload))]
      [] d.kind = "header" ->
            [program_id |-> ed25519_program_ID,
             data |-> record_header(1, HeaderLen + PubkeyLen, d.ix_index,
                                    HeaderLen, d.ix_index,
                                    HeaderLen + PubkeyLen + SignatureLen,
                                    Len(build_message(d.program, d.payload)), d.ix_index)]
      [] d.kind = "double" ->
            [program_id |-> ed25519_program_ID,
             data |-> double_record_data(to_bytes(d.pk), signature_bytes(d.sig),
                                         build_message(d.program, d.payload))]

Transaction(ds) == [i \in 1..Len(ds) |-> Instruction(ds[i])]

\* The precompile: the bytes a record's offsets name, in this instruction's
\* data or in the data of the instruction the index field names.
get_data_slice(tx, own_data, ix_index, offset, size) ==
    LET found == ix_index = ThisInstruction \/ ix_index < Len(tx)
        data  == IF ix_index = ThisInstruction THEN own_data
                 ELSE IF ix_index < Len(tx) THEN tx[ix_index + 1].data
                 ELSE <<>>
    IN  IF found /\ offset + size <= Len(data)
        THEN [some |-> TRUE, bytes |-> SubSeq(data, offset + 1, offset + size)]
        ELSE [some |-> FALSE, bytes |-> <<>>]

precompile_verify_one(tx, data, j) ==
    LET start == 2 + 14 * j IN
    /\ start + 14 <= Len(data)
    /\ LET sig == get_data_slice(tx, data, read_u16_le(data, start + 2),
                                 read_u16_le(data, start), SignatureLen)
           pk  == get_data_slice(tx, data, read_u16_le(data, start + 6),
                                 read_u16_le(data, start + 4), PubkeyLen)
           msg == get_data_slice(tx, data, read_u16_le(data, start + 12),
                                 read_u16_le(data, start + 8),
                                 read_u16_le(data, start + 10))
       IN  /\ sig.some /\ pk.some /\ msg.some
           /\ ed25519_verify(pk.bytes, sig.bytes, msg.bytes)

precompile_verify(tx, data) ==
    /\ Len(data) >= 2
    /\ ~(data[1] = 0 /\ Len(data) > 2)
    /\ \A j \in 0..(data[1] - 1) : precompile_verify_one(tx, data, j)

\* The key, signature and message entry j of a record makes the precompile check.
precompile_checked(tx, data, j) ==
    LET start == 2 + 14 * j IN
    [sig |-> get_data_slice(tx, data, read_u16_le(data, start + 2),
                            read_u16_le(data, start), SignatureLen).bytes,
     pk  |-> get_data_slice(tx, data, read_u16_le(data, start + 6),
                            read_u16_le(data, start + 4), PubkeyLen).bytes,
     msg |-> get_data_slice(tx, data, read_u16_le(data, start + 12),
                            read_u16_le(data, start + 8),
                            read_u16_le(data, start + 10)).bytes]

\* The platform runs a transaction only if each of its Ed25519 instructions verifies.
precompiles_pass(tx) ==
    \A i \in 1..Len(tx) :
        tx[i].program_id = ed25519_program_ID => precompile_verify(tx, tx[i].data)

(***************************************************************************)
(* Accounts.                                                               *)
(***************************************************************************)
Users == {"alice", "bob"}
Mints == {"mint1", "mint2"}
TokenAccounts == {"alice_m1", "bob_m1", "alice_m2"}

\* TokenState before initialize: the account does not exist yet.
NoTokenState ==
    [is_initialized |-> FALSE, admin |-> "default", upgrade_authority |-> "default",
     token_mint |-> "default", treasury_account |-> "default",
     transfers_enabled |-> FALSE, transfers_permanently_enabled |-> FALSE,
     transfer_enable_timestamp |-> 0, claim_period_seconds |-> 0,
     time_lock_enabled |-> FALSE, upgradeable |-> FALSE]

\* A UserData account that has not been created.
NoUserData ==
    [exists |-> FALSE, user |-> "default", nonce |-> 0, last_claim_timestamp |-> 0,
     next_allowed_claim_time |-> 0, total_claims |-> 0]

\* The token accounts, as the token ledger created them: empty and thawed.
NewTokenAccount(a) ==
    [owner  |-> IF a = "bob_m1" THEN "bob" ELSE "alice",
     mint   |-> IF a = "alice_m2" THEN "mint2" ELSE "mint1",
     amount |-> 0,
     frozen |-> FALSE]

\* The treasury is the associated token account of (token_state, mint).
associated_token_address(mint) == IF mint = "mint1" THEN "treasury1" ELSE "treasury2"
TreasuryAccounts == {associated_token_address(m) : m \in Mints}

\* The data at an address where no token account has been created.
NoTokenAccount == [owner |-> "default", mint |-> "default", amount |-> 0, frozen |-> FALSE]

\* The ledger at deployment: the users' accounts, and no treasury.
NewLedger ==
    [a \in TokenAccounts \cup TreasuryAccounts |->
        IF a \in TokenAccounts THEN NewTokenAccount(a) ELSE NoTokenAccount]

NoReceipt == [op |-> "none"]
NoClaim == [user |-> "default"]

\* The instants the clock is looked at: a first claim at 0 or 1, and the
\* last second of the claim period after 0 and the first second past it.
ClockValues == {0, 1, 3599, 3600}
FarFuture == 100000

Init ==
    /\ clock = 0
    /\ token_state = NoTokenState
    /\ user_data = [u \in Users |-> NoUserData]
    /\ ledger = NewLedger
    /\ receipt = NoReceipt
    /\ consumed = [u \in Users |-> <<>>]
    /\ redeemed = NoClaim
    /\ granted = [u \in Users |-> 0]

(***************************************************************************)
(* What every handler leaves behind: the receipt of the call.              *)
(***************************************************************************)
Receipt(op, args, err) ==
    [op |-> op, args |-> args, err |-> err,
     pre |-> [clock |-> clock, token_state |-> token_state,
              user_data |-> user_data, ledger |-> ledger]]

\* A failed instruction: the host discards every write.
Rejected(op, args, err) ==
    /\ receipt' = Receipt(op, args, err)
    /\ UNCHANGED <<clock, token_state, user_data, ledger, consumed, redeemed, granted>>

(***************************************************************************)
(* Policy handlers.  An instruction whose token_state account has not     *)
(* been created fails when its accounts are loaded, before the handler     *)
(* body; the body then checks the signer and the initialised flag.         *)
(***************************************************************************)
\* initialize on an account that may exist already (init_if_needed).
initialize_result_if_needed(ts, admin, upgrade_authority, claim_period_seconds, time_lock_enabled, upgradeable) ==
    IF ~(claim_period_seconds >= 30) THEN [err |-> "InvalidClaimPeriod", token_state |-> ts]
    ELSE IF ~(claim_period_seconds <= 31536000) THEN [err |-> "InvalidClaimPeriod", token_state |-> ts]
    ELSE [err |-> "Ok",
          token_state |->
            [is_initialized |-> TRUE, admin |-> admin,
             upgrade_authority |-> upgrade_authority,
             token_mint |-> "default", treasury_account |-> "default",
             transfers_enabled |-> FALSE, transfers_permanently_enabled |-> FALSE,
             transfer_enable_timestamp |-> 0,
             claim_period_seconds |-> claim_period_seconds,
             time_lock_enabled |-> time_lock_enabled, upgradeable |-> upgradeable]]

initialize_result(ts, admin, upgrade_authority, claim_period_seconds, time_lock_enabled, upgradeable) ==
    IF ts.is_initialized THEN [err |-> "AlreadyInUse", token_state |-> ts]
    ELSE IF ~(claim_period_seconds >= 30) THEN [err |-> "InvalidClaimPeriod", token_state |-> ts]
    ELSE IF ~(claim_period_seconds <= 31536000) THEN [err |-> "InvalidClaimPeriod", token_state |-> ts]
    ELSE [err |-> "Ok",
          token_state |->
            [is_initialized |-> TRUE, admin |-> admin,
             upgrade_authority |-> upgrade_authority,
             token_mint |-> "default", treasury_account |-> "default",
             transfers_enabled |-> FALSE, transfers_permanently_enabled |-> FALSE,
             transfer_enable_timestamp |-> 0,
             claim_period_seconds |-> claim_period_seconds,
             time_lock_enabled |-> time_lock_enabled, upgradeable |-> upgradeable]]

initialize(admin, upgrade_authority, claim_period_seconds, time_lock_enabled, upgradeable) ==
    LET args == [admin |-> admin, upgrade_authority |-> upgrade_authority,
                 claim_period_seconds |-> claim_period_seconds,
                 time_lock_enabled |-> time_lock_enabled, upgradeable |-> upgradeable]
        out  == initialize_result(token_state, admin, upgrade_authority,
                                  claim_period_seconds, time_lock_enabled, upgradeable)
    IN  /\ token_state' = out.token_state
        /\ receipt' = Receipt("initialize", args, out.err)
        /\ UNCHANGED <<clock, user_data, ledger, consumed, redeemed, granted>>

\* create_token_mint clearing both transfer flags, as initialize does.
create_token_mint_result_clears_latch(ts, signer, mint) ==
    IF ~ts.is_initialized THEN [err |-> "AccountNotInitialized", token_state |-> ts]
    ELSE IF ~(signer = ts.admin) THEN [err |-> "UnauthorizedAdmin", token_state |-> ts]
    ELSE IF ~(ts.token_mint = "default") THEN [err |-> "TokenMintAlreadyCreated", token_state |-> ts]
    ELSE [err |-> "Ok",
          token_state |-> [ts EXCEPT !.token_mint = mint, !.transfers_enabled = FALSE,
                                     !.transfers_permanently_enabled = FALSE]]

create_token_mint_result(ts, signer, mint) ==
    IF ~ts.is_initialized THEN [err |-> "AccountNotInitialized", token_state |-> ts]
    ELSE IF ~(signer = ts.admin) THEN [err |-> "UnauthorizedAdmin", token_state |-> ts]
    ELSE IF ~ts.is_initialized THEN [err |-> "ContractNotInitialized", token_state |-> ts]
    ELSE IF ~(ts.token_mint = "default") THEN [err |-> "TokenMintAlreadyCreated", token_state |-> ts]
    ELSE [err |-> "Ok",
          token_state |-> [ts EXCEPT !.token_mint = mint, !.transfers_enabled = FALSE]]

create_token_mint(signer, mint) ==
    LET out == create_token_mint_result(token_state, signer, mint)
    IN  /\ token_state' = out.token_state
        /\ receipt' = Receipt("create_token_mint", [admin |-> signer, mint |-> mint], out.err)
        /\ UNCHANGED <<clock, user_data, ledger, consumed, redeemed, granted>>

update_token_mint_result(ts, signer, mint) ==
    IF ~ts.is_initialized THEN [err |-> "AccountNotInitialized", token_state |-> ts]
    ELSE IF ~(signer = ts.admin) THEN [err |-> "UnauthorizedAdmin", token_state |-> ts]
    ELSE IF ~ts.is_initialized THEN [err |-> "ContractNotInitialized", token_state |-> ts]
    ELSE [err |-> "Ok",
          token_state |-> [ts EXCEPT !.token_mint = mint, !.treasury_account = "default"]]

update_token_mint(signer, mint) ==
    LET out == update_token_mint_result(token_state, signer, mint)
    IN  /\ token_state' = out.token_state
        /\ receipt' = Receipt("update_token_mint", [admin |-> signer, mint |-> mint], out.err)
        /\ UNCHANGED <<clock, user_data, ledger, consumed, redeemed, granted>>

\* update_time_lock without the check of the signer.
update_time_lock_result_any_signer(ts, signer, claim_period_seconds, time_lock_enabled) ==
    IF ~ts.is_initialized THEN [err |-> "AccountNotInitialized", token_state |-> ts]
    ELSE IF ~(claim_period_seconds >= 3600) THEN [err |-> "InvalidClaimPeriod", token_state |-> ts]
    ELSE IF ~(claim_period_seconds <= 31536000) THEN [err |-> "InvalidClaimPeriod", token_state |-> ts]
    ELSE [err |-> "Ok",
          token_state |-> [ts EXCEPT !.claim_period_seconds = claim_period_seconds,
                                     !.time_lock_enabled = time_lock_enabled]]

update_time_lock_result(ts, signer, claim_period_seconds, time_lock_enabled) ==
    IF ~ts.is_initialized THEN [err |-> "AccountNotInitialized", token_state |-> ts]
    ELSE IF ~(signer = ts.admin) THEN [err |-> "UnauthorizedAdmin", token_state |-> ts]
    ELSE IF ~ts.is_initialized THEN [err |-> "ContractNotInitialized", token_state |-> ts]
    ELSE IF ~(claim_period_seconds >= 3600) THEN [err |-> "InvalidClaimPeriod", token_state |-> ts]
    ELSE IF ~(claim_period_seconds <= 31536000) THEN [err |-> "InvalidClaimPeriod", token_state |-> ts]
    ELSE [err |-> "Ok",
          token_state |-> [ts EXCEPT !.claim_period_seconds = claim_period_seconds,
                                     !.time_lock_enabled = time_lock_enabled]]

update_time_lock(signer, claim_period_seconds, time_lock_enabled) ==
    LET out == update_time_lock_result(token_state, signer, claim_period_seconds, time_lock_enabled)
    IN  /\ token_state' = out.token_state
        /\ receipt' = Receipt("update_time_lock",
                              [admin |-> signer, claim_period_seconds |-> claim_period_seconds,
                               time_lock_enabled |-> time_lock_enabled], out.err)
        /\ UNCHANGED <<clock, user_data, ledger, consumed, redeemed, granted>>

(***************************************************************************)
(* The transfer switch.                                                    *)
(***************************************************************************)
pause_transfers_result(ts, signer) ==
    IF ~ts.is_initialized THEN [err |-> "AccountNotInitialized", token_state |-> ts]
    ELSE IF ~(signer = ts.admin) THEN [err |-> "UnauthorizedAdmin", token_state |-> ts]
    ELSE IF ~ts.is_initialized THEN [err |-> "ContractNotInitialized", token_state |-> ts]
    ELSE IF ~(~ts.transfers_permanently_enabled)
         THEN [err |-> "TransfersPermanentlyEnabled", token_state |-> ts]
    ELSE [err |-> "Ok", token_state |-> [ts EXCEPT !.transfers_enabled = FALSE]]

resume_transfers_result(ts, signer, current_timestamp) ==
    IF ~ts.is_initialized THEN [err |-> "AccountNotInitialized", token_state |-> ts]
    ELSE IF ~(signer = ts.admin) THEN [err |-> "UnauthorizedAdmin", token_state |-> ts]
    ELSE IF ~ts.is_initialized THEN [err |-> "ContractNotInitialized", token_state |-> ts]
    ELSE [err |-> "Ok",
          token_state |-> [ts EXCEPT !.transfers_enabled = TRUE,
                                     !.transfer_enable_timestamp = current_timestamp]]

permanently_enable_transfers_result(ts, signer, current_timestamp) ==
    IF ~ts.is_initialized THEN [err |-> "AccountNotInitialized", token_state |-> ts]
    ELSE IF ~(signer = ts.admin) THEN [err |-> "UnauthorizedAdmin", token_state |-> ts]
    ELSE IF ~ts.is_initialized THEN [err |-> "ContractNotInitialized", token_state |-> ts]
    ELSE [err |-> "Ok",
          token_state |-> [ts EXCEPT !.transfers_enabled = TRUE,
                                     !.transfers_permanently_enabled = TRUE,
                                     !.transfer_enable_timestamp = current_timestamp]]

enable_transfers_result(ts, signer, current_timestamp) ==
    IF ~ts.is_initialized THEN [err |-> "AccountNotInitialized", token_state |-> ts]
    ELSE IF ~(signer = ts.admin) THEN [err |-> "UnauthorizedAdmin", token_state |-> ts]
    ELSE IF ~ts.is_initialized THEN [err |-> "ContractNotInitialized", token_state |-> ts]
    ELSE IF ~(ts.token_mint # "default") THEN [err |-> "TokenMintNotCreated", token_state |-> ts]
    ELSE IF ~(~ts.transfers_permanently_enabled)
         THEN [err |-> "TransfersAlreadyPermanentlyEnabled", token_state |-> ts]
    ELSE [err |-> "Ok",
          token_state |-> [ts EXCEPT !.transfers_enabled = TRUE,
                                     !.transfers_permanently_enabled = TRUE,
                                     !.transfer_enable_timestamp = current_timestamp]]

\* One of the four switch instructions, by name.
transfer_switch_result(op, ts, signer, current_timestamp) ==
    CASE op = "pause_transfers" -> pause_transfers_result(ts, signer)
      [] op = "resume_transfers" -> resume_transfers_result(ts, signer, current_timestamp)
      [] op = "permanently_enable_transfers" ->
            permanently_enable_transfers_result(ts, signer, current_timestamp)
      [] op = "enable_transfers" -> enable_transfers_result(ts, signer, current_timestamp)

transfer_switch(op, signer) ==
    LET out == transfer_switch_result(op, token_state, signer, clock)
    IN  /\ token_state' = out.token_state
        /\ receipt' = Receipt(op, [admin |-> signer], out.err)
        /\ UNCHANGED <<clock, user_data, ledger, consumed, redeemed, granted>>

pause_transfers(signer) == transfer_switch("pause_transfers", signer)
resume_transfers(signer) == transfer_switch("resume_transfers", signer)
permanently_enable_transfers(signer) == transfer_switch("permanently_enable_transfers", signer)
enable_transfers(signer) == transfer_switch("enable_transfers", signer)

(***************************************************************************)
(* The upgrade authority, the treasury and the transfer query.             *)
(***************************************************************************)
NoKey == [some |-> FALSE, value |-> "default"]
SomeKey(k) == [some |-> TRUE, value |-> k]

\* set_upgrade_authority whose None arm keeps the contract upgradeable.
set_upgrade_authority_result_keeps_upgradeable(ts, signer, new_upgrade_authority) ==
    IF ~ts.is_initialized THEN [err |-> "AccountNotInitialized", token_state |-> ts]
    ELSE IF ~(signer = ts.upgrade_authority)
    THEN [err |-> "UnauthorizedUpgradeAuthority", token_state |-> ts]
    ELSE IF ~ts.upgradeable THEN [err |-> "ContractNotUpgradeable", token_state |-> ts]
    ELSE IF new_upgrade_authority.some
    THEN [err |-> "Ok",
          token_state |-> [ts EXCEPT !.upgrade_authority = new_upgrade_authority.value]]
    ELSE [err |-> "Ok", token_state |-> [ts EXCEPT !.upgrade_authority = "default"]]

set_upgrade_authority_result(ts, signer, new_upgrade_authority) ==
    IF ~ts.is_initialized THEN [err |-> "AccountNotInitialized", token_state |-> ts]
    ELSE IF ~(signer = ts.upgrade_authority)
    THEN [err |-> "UnauthorizedUpgradeAuthority", token_state |-> ts]
    ELSE IF ~ts.upgradeable THEN [err |-> "ContractNotUpgradeable", token_state |-> ts]
    ELSE IF new_upgrade_authority.some
    THEN [err |-> "Ok",
          token_state |-> [ts EXCEPT !.upgrade_authority = new_upgrade_authority.value]]
    ELSE [err |-> "Ok",
          token_state |-> [ts EXCEPT !.upgrade_authority = "default", !.upgradeable = FALSE]]

\* validate_upgrade writes nothing.
validate_upgrade_result(ts, signer, program_data) ==
    IF ~ts.is_initialized THEN [err |-> "AccountNotInitialized", token_state |-> ts]
    ELSE IF ~(signer = ts.upgrade_authority)
    THEN [err |-> "UnauthorizedUpgradeAuthority", token_state |-> ts]
    ELSE IF ~ts.upgradeable THEN [err |-> "ContractNotUpgradeable", token_state |-> ts]
    ELSE IF ~(program_data # "default") THEN [err |-> "InvalidProgramData", token_state |-> ts]
    ELSE [err |-> "Ok", token_state |-> ts]

\* create_treasury: the treasury account is created by the instruction
\* (init), which fails when an account is already there, and is then recorded.
create_treasury_result(ts, L, signer, mint) ==
    LET treasury == associated_token_address(mint) IN
    IF ~ts.is_initialized THEN [err |-> "AccountNotInitialized", token_state |-> ts, ledger |-> L]
    ELSE IF L[treasury] # NoTokenAccount
    THEN [err |-> "AlreadyInUse", token_state |-> ts, ledger |-> L]
    ELSE IF ~(mint = ts.token_mint)
    THEN [err |-> "InvalidTokenMint", token_state |-> ts, ledger |-> L]
    ELSE IF ~(signer = ts.admin)
    THEN [err |-> "UnauthorizedAdmin", token_state |-> ts, ledger |-> L]
    ELSE IF ~(ts.token_mint # "default")
    THEN [err |-> "TokenMintNotCreated", token_state |-> ts, ledger |-> L]
    ELSE IF ~(ts.treasury_account = "default")
    THEN [err |-> "TreasuryAlreadyCreated", token_state |-> ts, ledger |-> L]
    ELSE [err |-> "Ok",
          token_state |-> [ts EXCEPT !.treasury_account = treasury],
          ledger |-> [L EXCEPT ![treasury] =
                        [owner |-> "token_state", mint |-> mint, amount |-> 0,
                         frozen |-> FALSE]]]

\* check_transfers_enabled: a query anyone may send.
check_transfers_enabled_result(ts) ==
    IF ~ts.is_initialized THEN [err |-> "AccountNotInitialized", token_state |-> ts]
    ELSE IF ~ts.transfers_enabled THEN [err |-> "TransfersPaused", token_state |-> ts]
    ELSE [err |-> "Ok", token_state |-> ts]

\* An instruction that touches the policy record only.
policy_instruction(op, args, out) ==
    /\ token_state' = out.token_state
    /\ receipt' = Receipt(op, args, out.err)
    /\ UNCHANGED <<clock, user_data, ledger, consumed, redeemed, granted>>

set_upgrade_authority(signer, new_upgrade_authority) ==
    policy_instruction("set_upgrade_authority",
                       [current_upgrade_authority |-> signer,
                        new_upgrade_authority |-> new_upgrade_authority],
                       set_upgrade_authority_result(token_state, signer, new_upgrade_authority))

validate_upgrade(signer, program_data) ==
    policy_instruction("validate_upgrade",
                       [upgrade_authority |-> signer, program_data |-> program_data],
                       validate_upgrade_result(token_state, signer, program_data))

create_treasury(signer, mint) ==
    LET out == create_treasury_result(token_state, ledger, signer, mint)
    IN  /\ token_state' = out.token_state
        /\ ledger' = out.ledger
        /\ receipt' = Receipt("create_treasury", [admin |-> signer, mint |-> mint], out.err)
        /\ UNCHANGED <<clock, user_data, consumed, redeemed, granted>>

check_transfers_enabled(signer) ==
    policy_instruction("check_transfers_enabled", [signer |-> signer],
                       check_transfers_enabled_result(token_state))

(***************************************************************************)
(* The token ledger's calls the program makes.                             *)
(***************************************************************************)
\* mint_to crediting one unit whatever the amount.
mint_to_one_unit(account, amount) ==
    IF account.frozen THEN [err |-> "AccountFrozen", account |-> account]
    ELSE [err |-> "Ok", account |-> [account EXCEPT !.amount = @ + 1]]

mint_to(account, amount) ==
    IF account.frozen THEN [err |-> "AccountFrozen", account |-> account]
    ELSE [err |-> "Ok", account |-> [account EXCEPT !.amount = @ + amount]]

freeze_account(account) ==
    IF account.frozen THEN [err |-> "InvalidState", account |-> account]
    ELSE [err |-> "Ok", account |-> [account EXCEPT !.frozen = TRUE]]

thaw_account(account) ==
    IF ~account.frozen THEN [err |-> "InvalidState", account |-> account]
    ELSE [err |-> "Ok", account |-> [account EXCEPT !.frozen = FALSE]]

\* unfreeze_token_account: the admin's thaw.
unfreeze_token_account_result(ts, signer, mint, account) ==
    IF ~ts.is_initialized THEN [err |-> "AccountNotInitialized", account |-> account]
    ELSE IF ~(mint = ts.token_mint) THEN [err |-> "InvalidTokenMint", account |-> account]
    ELSE IF ~(account.mint = ts.token_mint) THEN [err |-> "InvalidTokenAccount", account |-> account]
    ELSE IF ~(signer = ts.admin) THEN [err |-> "UnauthorizedAdmin", account |-> account]
    ELSE thaw_account(account)

unfreeze_token_account(signer, mint, token_account) ==
    LET out == unfreeze_token_account_result(token_state, signer, mint, ledger[token_account])
    IN  /\ ledger' = [ledger EXCEPT ![token_account] = out.account]
        /\ receipt' = Receipt("unfreeze_token_account",
                              [admin |-> signer, mint |-> mint, token_account |-> token_account],
                              out.err)
        /\ UNCHANGED <<clock, token_state, user_data, consumed, redeemed, granted>>

(***************************************************************************)
(* The claim state machine.                                                *)
(***************************************************************************)
\* initialize_user_data on an account that may exist already (init_if_needed).
initialize_user_data_result_if_needed(ud, user) ==
    [err |-> "Ok",
     user_data |-> [exists |-> TRUE, user |-> user, nonce |-> 0,
                    last_claim_timestamp |-> 0, next_allowed_claim_time |-> 0,
                    total_claims |-> 0]]

initialize_user_data_result(ud, user) ==
    IF ud.exists THEN [err |-> "AlreadyInUse", user_data |-> ud]
    ELSE [err |-> "Ok",
          user_data |-> [exists |-> TRUE, user |-> user, nonce |-> 0,
                         last_claim_timestamp |-> 0, next_allowed_claim_time |-> 0,
                         total_claims |-> 0]]

initialize_user_data(user) ==
    LET out == initialize_user_data_result(user_data[user], user)
    IN  /\ user_data' = [user_data EXCEPT ![user] = out.user_data]
        /\ receipt' = Receipt("initialize_user_data", [user |-> user], out.err)
        /\ UNCHANGED <<clock, token_state, ledger, consumed, redeemed, granted>>

\* The account constraints of ClaimTokens, checked before the handler body.
ClaimTokens_accounts(ts, ud, account, mint) ==
    IF ~ts.is_initialized THEN "AccountNotInitialized"
    ELSE IF ~ud.exists THEN "AccountNotInitialized"
    ELSE IF ~(mint = ts.token_mint) THEN "InvalidTokenMint"
    ELSE IF ~(account.mint = ts.token_mint) THEN "InvalidTokenAccount"
    ELSE "Ok"

contract_ready(ts, account, mint) ==
    IF ~ts.is_initialized THEN "ContractNotInitialized"
    ELSE IF ~(ts.token_mint # "default") THEN "TokenMintNotCreated"
    ELSE IF ~(mint = ts.token_mint) THEN "InvalidTokenMint"
    ELSE IF ~(account.mint = ts.token_mint) THEN "InvalidTokenAccount"
    ELSE "Ok"

\* The binding with the check of the token account's owner left out.
destination_binding_payload_only(payload, account, user) ==
    IF ~(payload.user_address = user) THEN "UnauthorizedDestination" ELSE "Ok"

destination_binding(payload, account, user) ==
    IF ~(payload.user_address = user) THEN "UnauthorizedDestination"
    ELSE IF ~(account.owner = user) THEN "UnauthorizedDestination"
    ELSE "Ok"

\* claim_amount is a u64: greater than zero is not zero.
amount_check(payload) ==
    IF ~(payload.claim_amount # 0) THEN "InvalidMintAmount" ELSE "Ok"

owner_check(ud, user) ==
    IF ~(ud.user = user) THEN "InvalidUserData" ELSE "Ok"

\* The nonce check left out.
nonce_check_removed(payload, ud) == "Ok"

\* The nonce check with a range in place of the equality.
nonce_check_at_least(payload, ud) ==
    IF ~(payload.nonce >= ud.nonce) THEN "InvalidNonce" ELSE "Ok"

nonce_check(payload, ud) ==
    IF ~(payload.nonce = ud.nonce) THEN "InvalidNonce" ELSE "Ok"

\* The timestamps of the model stay far from i64::MAX: saturating_add adds.
saturating_add(a, b) == a + b

\* The time admission with a strict comparison against the end of the period.
time_admission_strict(ts, ud, current_timestamp) ==
    IF ts.time_lock_enabled
    THEN IF ~(current_timestamp >= ud.next_allowed_claim_time) THEN "ClaimTimeLocked"
         ELSE IF ud.total_claims # 0
                 /\ ~(current_timestamp >
                        saturating_add(ud.last_claim_timestamp, ts.claim_period_seconds))
              THEN "ClaimPeriodNotElapsed"
         ELSE "Ok"
    ELSE IF ud.last_claim_timestamp > 0
         THEN IF ~(current_timestamp > ud.last_claim_timestamp) THEN "ClaimTooSoon"
              ELSE IF ~(current_timestamp >= saturating_add(ud.last_claim_timestamp, 1))
                   THEN "ClaimTooFrequent"
              ELSE "Ok"
         ELSE "Ok"

\* The time admission that asks for a full period before a first claim too.
time_admission_first_claim_waits(ts, ud, current_timestamp) ==
    IF ts.time_lock_enabled
    THEN IF ~(current_timestamp >= ud.next_allowed_claim_time) THEN "ClaimTimeLocked"
         ELSE IF ~(current_timestamp >=
                     saturating_add(ud.last_claim_timestamp, ts.claim_period_seconds))
              THEN "ClaimPeriodNotElapsed"
         ELSE "Ok"
    ELSE IF ud.last_claim_timestamp > 0
         THEN IF ~(current_timestamp > ud.last_claim_timestamp) THEN "ClaimTooSoon"
              ELSE IF ~(current_timestamp >= saturating_add(ud.last_claim_timestamp, 1))
                   THEN "ClaimTooFrequent"
              ELSE "Ok"
         ELSE "Ok"

\* The time admission with the check of next_allowed_claim_time left out.
time_admission_period_only(ts, ud, current_timestamp) ==
    IF ts.time_lock_enabled
    THEN IF ud.total_claims # 0
            /\ ~(current_timestamp >=
                   saturating_add(ud.last_claim_timestamp, ts.claim_period_seconds))
         THEN "ClaimPeriodNotElapsed"
         ELSE "Ok"
    ELSE IF ud.last_claim_timestamp > 0
         THEN IF ~(current_timestamp > ud.last_claim_timestamp) THEN "ClaimTooSoon"
              ELSE IF ~(current_timestamp >= saturating_add(ud.last_claim_timestamp, 1))
                   THEN "ClaimTooFrequent"
              ELSE "Ok"
         ELSE "Ok"

time_admission(ts, ud, current_timestamp) ==
    IF ts.time_lock_enabled
    THEN IF ~(current_timestamp >= ud.next_allowed_claim_time) THEN "ClaimTimeLocked"
         ELSE IF ud.total_claims # 0
                 /\ ~(current_timestamp >=
                        saturating_add(ud.last_claim_timestamp, ts.claim_period_seconds))
              THEN "ClaimPeriodNotElapsed"
         ELSE "Ok"
    ELSE IF ud.last_claim_timestamp > 0
         THEN IF ~(current_timestamp > ud.last_claim_timestamp) THEN "ClaimTooSoon"
              ELSE IF ~(current_timestamp >= saturating_add(ud.last_claim_timestamp, 1))
                   THEN "ClaimTooFrequent"
              ELSE "Ok"
         ELSE "Ok"

nonce_progression(payload, ud) ==
    IF ud.total_claims # 0 /\ ~(payload.nonce = ud.nonce) THEN "InvalidNonceSequence"
    ELSE "Ok"

\* The expiry check with a strict comparison.
expiry_check_strict(payload, current_timestamp) ==
    IF ~(current_timestamp < payload.expiry_time) THEN "ClaimExpired" ELSE "Ok"

expiry_check(payload, current_timestamp) ==
    IF ~(current_timestamp <= payload.expiry_time) THEN "ClaimExpired" ELSE "Ok"

RECURSIVE sum(_, _)
sum(bytes, n) == IF n = 0 THEN 0 ELSE bytes[n] + sum(bytes, n - 1)

signature_format(admin_signature) ==
    IF ~(Len(admin_signature) = SignatureLen) THEN "InvalidAdminSignature"
    ELSE IF ~(sum(admin_signature, Len(admin_signature)) > 0) THEN "InvalidAdminSignature"
    ELSE "Ok"

\* The ? operator of the handler: the first error ends the call, the rest is not run.
and_then(first, rest) == IF first # "Ok" THEN first ELSE rest

\* The update of UserData with the increment of the nonce left out.
advance_user_data_no_increment(ud, ts, current_timestamp) ==
    LET total == checked_add_u64(ud.total_claims, 1)
    IN  IF ~total.some THEN [err |-> "ClaimCountOverflow", user_data |-> ud]
        ELSE [err |-> "Ok",
              user_data |->
                [ud EXCEPT !.last_claim_timestamp = current_timestamp,
                           !.total_claims = total.value,
                           !.next_allowed_claim_time =
                               IF ts.time_lock_enabled
                               THEN current_timestamp + ts.claim_period_seconds
                               ELSE saturating_add(current_timestamp, 1)]]

\* The update of UserData with next_allowed_claim_time one second ahead
\* whatever the time-lock says.
advance_user_data_unit_gap(ud, ts, current_timestamp) ==
    LET nonce == checked_add_u64(ud.nonce, 1)
        total == checked_add_u64(ud.total_claims, 1)
    IN  IF ~nonce.some THEN [err |-> "NonceOverflow", user_data |-> ud]
        ELSE IF ~total.some THEN [err |-> "ClaimCountOverflow", user_data |-> ud]
        ELSE [err |-> "Ok",
              user_data |->
                [ud EXCEPT !.nonce = nonce.value,
                           !.last_claim_timestamp = current_timestamp,
                           !.total_claims = total.value,
                           !.next_allowed_claim_time = saturating_add(current_timestamp, 1)]]

\* What claim_tokens writes to UserData once the tokens are minted.
advance_user_data(ud, ts, current_timestamp) ==
    LET nonce == checked_add_u64(ud.nonce, 1)
        total == checked_add_u64(ud.total_claims, 1)
    IN  IF ~nonce.some THEN [err |-> "NonceOverflow", user_data |-> ud]
        ELSE IF ~total.some THEN [err |-> "ClaimCountOverflow", user_data |-> ud]
        ELSE [err |-> "Ok",
              user_data |->
                [ud EXCEPT !.nonce = nonce.value,
                           !.last_claim_timestamp = current_timestamp,
                           !.total_claims = total.value,
                           !.next_allowed_claim_time =
                               IF ts.time_lock_enabled
                               THEN current_timestamp + ts.claim_period_seconds
                               ELSE saturating_add(current_timestamp, 1)]]

\* mint_to, then freeze_account, on the destination.
mint_and_freeze(account, payload) ==
    LET minted == mint_to(account, payload.claim_amount)
    IN  IF minted.err # "Ok" THEN [err |-> minted.err, account |-> account]
        ELSE LET frozen == freeze_account(minted.account)
             IN  IF frozen.err # "Ok" THEN [err |-> frozen.err, account |-> account]
                 ELSE frozen

\* The checks with the time admission moved ahead of the nonce check.
claim_tokens_checks_time_first(ts, ud, account, current_timestamp, user, mint, payload, admin_signature, tx, current_index) ==
    and_then(contract_ready(ts, account, mint),
    and_then(destination_binding(payload, account, user),
    and_then(amount_check(payload),
    and_then(owner_check(ud, user),
    and_then(time_admission(ts, ud, current_timestamp),
    and_then(nonce_check(payload, ud),
    and_then(nonce_progression(payload, ud),
    and_then(expiry_check(payload, current_timestamp),
    and_then(signature_format(admin_signature),
             verify_admin_signature_only(tx, current_index, build_message(ID, payload),
                                         admin_signature, ts.admin))))))))))

claim_tokens_checks(ts, ud, account, current_timestamp, user, mint, payload, admin_signature, tx, current_index) ==
    and_then(contract_ready(ts, account, mint),
    and_then(destination_binding(payload, account, user),
    and_then(amount_check(payload),
    and_then(owner_check(ud, user),
    and_then(nonce_check(payload, ud),
    and_then(time_admission(ts, ud, current_timestamp),
    and_then(nonce_progression(payload, ud),
    and_then(expiry_check(payload, current_timestamp),
    and_then(signature_format(admin_signature),
             verify_admin_signature_only(tx, current_index, build_message(ID, payload),
                                         admin_signature, ts.admin))))))))))

\* The handler body with the write of UserData lost.
claim_tokens_result_unsaved(ts, ud, account, current_timestamp, user, mint, payload, admin_signature, tx, current_index) ==
    LET failed(e) == [err |-> e, user_data |-> ud, account |-> account]
        checked == claim_tokens_checks(ts, ud, account, current_timestamp, user, mint,
                                       payload, admin_signature, tx, current_index)
    IN  IF checked # "Ok" THEN failed(checked)
        ELSE LET paid == mint_and_freeze(account, payload)
             IN  IF paid.err # "Ok" THEN failed(paid.err)
                 ELSE [err |-> "Ok", user_data |-> ud, account |-> paid.account]

\* The handler body with the minted and frozen account kept when the update
\* of UserData fails.
claim_tokens_result_kept_mint(ts, ud, account, current_timestamp, user, mint, payload, admin_signature, tx, current_index) ==
    LET failed(e) == [err |-> e, user_data |-> ud, account |-> account]
        checked == claim_tokens_checks(ts, ud, account, current_timestamp, user, mint,
                                       payload, admin_signature, tx, current_index)
    IN  IF checked # "Ok" THEN failed(checked)
        ELSE LET paid == mint_and_freeze(account, payload)
             IN  IF paid.err # "Ok" THEN failed(paid.err)
                 ELSE LET upd == advance_user_data(ud, ts, current_timestamp)
                      IN  IF upd.err # "Ok"
                          THEN [err |-> upd.err, user_data |-> ud, account |-> paid.account]
                          ELSE [err |-> "Ok", user_data |-> upd.user_data,
                                account |-> paid.account]

\* The handler body: [err, user_data, account] after the call.
claim_tokens_result(ts, ud, account, current_timestamp, user, mint, payload, admin_signature, tx, current_index) ==
    LET failed(e) == [err |-> e, user_data |-> ud, account |-> account]
        checked == claim_tokens_checks(ts, ud, account, current_timestamp, user, mint,
                                       payload, admin_signature, tx, current_index)
    IN  IF checked # "Ok" THEN failed(checked)
        ELSE LET paid == mint_and_freeze(account, payload)
             IN  IF paid.err # "Ok" THEN failed(paid.err)
                 ELSE LET upd == advance_user_data(ud, ts, current_timestamp)
                      IN  IF upd.err # "Ok" THEN failed(upd.err)
                          ELSE [err |-> "Ok", user_data |-> upd.user_data,
                                account |-> paid.account]

\* A claim transaction as the host runs it: the precompiles first, then the
\* account constraints, then the handler.  Any failure discards every write.
claim_transaction(ts, ud, account, current_timestamp, req) ==
    LET tx == Transaction(req.tx)
        accounts == ClaimTokens_accounts(ts, ud, account, req.mint)
    IN  IF ~precompiles_pass(tx)
        THEN [err |-> "PrecompileFailed", user_data |-> ud, account |-> account]
        ELSE IF accounts # "Ok"
        THEN [err |-> accounts, user_data |-> ud, account |-> account]
        ELSE claim_tokens_result(ts, ud, account, current_timestamp, req.user, req.mint,
                                 req.payload, signature_bytes(req.admin_signature),
                                 tx, req.current_index)

claim_tokens(req) ==
    \E out \in {claim_transaction(token_state, user_data[req.user],
                                  ledger[req.user_token_account], clock, req)} :
        /\ user_data' = [user_data EXCEPT ![req.user] = out.user_data]
        /\ ledger' = [ledger EXCEPT ![req.user_token_account] = out.account]
        /\ receipt' = Receipt("claim_tokens", req, out.err)
        /\ consumed' = IF out.err = "Ok"
                       THEN [consumed EXCEPT ![req.user] =
                                Append(@, user_data[req.user].nonce)]
                       ELSE consumed
        /\ granted' = IF out.err = "Ok"
                      THEN [granted EXCEPT ![req.user] = @ + req.payload.claim_amount]
                      ELSE granted
        /\ UNCHANGED <<clock, token_state, redeemed>>

(***************************************************************************)
(* The other instructions on token accounts.  Each result is [err, ledger]; *)
(* the account constraints of the instruction come first, then its body.   *)
(***************************************************************************)
\* The token ledger's burn and transfer, on a frozen account refused.
burn(account, amount) ==
    IF account.frozen THEN [err |-> "AccountFrozen", account |-> account]
    ELSE IF account.amount < amount THEN [err |-> "InsufficientFunds", account |-> account]
    ELSE [err |-> "Ok", account |-> [account EXCEPT !.amount = @ - amount]]

transfer(L, from, to, amount) ==
    IF L[from].frozen \/ L[to].frozen THEN [err |-> "AccountFrozen", ledger |-> L]
    ELSE IF L[from].amount < amount THEN [err |-> "InsufficientFunds", ledger |-> L]
    ELSE IF from = to THEN [err |-> "Ok", ledger |-> L]
    ELSE [err |-> "Ok",
          ledger |-> [L EXCEPT ![from].amount = @ - amount, ![to].amount = @ + amount]]

\* The constraints on token_state, mint and one token account that these
\* instructions share.
mint_and_account(ts, mint, account) ==
    IF ~ts.is_initialized THEN "AccountNotInitialized"
    ELSE IF ~(mint = ts.token_mint) THEN "InvalidTokenMint"
    ELSE IF ~(account.mint = ts.token_mint) THEN "InvalidTokenAccount"
    ELSE "Ok"

\* mint_tokens with the freeze after the mint left out.
mint_tokens_result_no_freeze(ts, L, signer, mint, a, amount) ==
    LET e == and_then(mint_and_account(ts, mint, L[a]),
             and_then(IF ~(signer = ts.admin) THEN "UnauthorizedAdmin" ELSE "Ok",
                      IF ~(amount # 0) THEN "InvalidMintAmount" ELSE "Ok"))
        out == mint_to(L[a], amount)
    IN  IF e # "Ok" THEN [err |-> e, ledger |-> L]
        ELSE IF out.err # "Ok" THEN [err |-> out.err, ledger |-> L]
        ELSE [err |-> "Ok", ledger |-> [L EXCEPT ![a] = out.account]]

mint_tokens_result(ts, L, signer, mint, a, amount) ==
    LET e == and_then(mint_and_account(ts, mint, L[a]),
             and_then(IF ~(signer = ts.admin) THEN "UnauthorizedAdmin" ELSE "Ok",
                      IF ~(amount # 0) THEN "InvalidMintAmount" ELSE "Ok"))
        out == mint_and_freeze(L[a], [claim_amount |-> amount])
    IN  IF e # "Ok" THEN [err |-> e, ledger |-> L]
        ELSE IF out.err # "Ok" THEN [err |-> out.err, ledger |-> L]
        ELSE [err |-> "Ok", ledger |-> [L EXCEPT ![a] = out.account]]

freeze_token_account_result(ts, L, signer, mint, a) ==
    LET e == and_then(mint_and_account(ts, mint, L[a]),
                      IF ~(signer = ts.admin) THEN "UnauthorizedAdmin" ELSE "Ok")
        out == freeze_account(L[a])
    IN  IF e # "Ok" THEN [err |-> e, ledger |-> L]
        ELSE IF out.err # "Ok" THEN [err |-> out.err, ledger |-> L]
        ELSE [err |-> "Ok", ledger |-> [L EXCEPT ![a] = out.account]]

burn_tokens_result(ts, L, signer, user_authority, mint, a, amount) ==
    LET e == and_then(mint_and_account(ts, mint, L[a]),
             and_then(IF ~(signer = ts.admin) THEN "UnauthorizedAdmin" ELSE "Ok",
             and_then(IF ~(user_authority = L[a].owner) THEN "UnauthorizedBurn" ELSE "Ok",
             and_then(IF ~(amount # 0) THEN "InvalidBurnAmount" ELSE "Ok",
                      IF ~(L[a].amount >= amount) THEN "InsufficientBalance" ELSE "Ok"))))
        out == burn(L[a], amount)
    IN  IF e # "Ok" THEN [err |-> e, ledger |-> L]
        ELSE IF out.err # "Ok" THEN [err |-> out.err, ledger |-> L]
        ELSE [err |-> "Ok", ledger |-> [L EXCEPT ![a] = out.account]]

transfer_tokens_result(ts, L, from_authority, mint, from, to, amount) ==
    LET e == and_then(mint_and_account(ts, mint, L[from]),
             and_then(IF ~(L[to].mint = ts.token_mint) THEN "InvalidTokenAccount" ELSE "Ok",
             and_then(IF ~(from_authority = L[from].owner) THEN "UnauthorizedTransfer" ELSE "Ok",
             and_then(IF ~ts.transfers_enabled THEN "TransfersNotEnabled" ELSE "Ok",
             and_then(IF ~(amount # 0) THEN "InvalidTransferAmount" ELSE "Ok",
                      IF ~(L[from].amount >= amount) THEN "InsufficientBalance" ELSE "Ok")))))
    IN  IF e # "Ok" THEN [err |-> e, ledger |-> L] ELSE transfer(L, from, to, amount)

\* The owner's thaw without the check of the permanent flag.
unfreeze_account_result_without_latch(ts, L, user, mint, a) ==
    LET e == and_then(mint_and_account(ts, mint, L[a]),
             and_then(IF ~(user = L[a].owner) THEN "UnauthorizedUnfreeze" ELSE "Ok",
                      IF ~ts.transfers_enabled THEN "TransfersNotEnabled" ELSE "Ok"))
        out == thaw_account(L[a])
    IN  IF e # "Ok" THEN [err |-> e, ledger |-> L]
        ELSE IF out.err # "Ok" THEN [err |-> out.err, ledger |-> L]
        ELSE [err |-> "Ok", ledger |-> [L EXCEPT ![a] = out.account]]

\* unfreeze_account: the owner's thaw, once transfers are permanently enabled.
unfreeze_account_result(ts, L, user, mint, a) ==
    LET e == and_then(mint_and_account(ts, mint, L[a]),
             and_then(IF ~(user = L[a].owner) THEN "UnauthorizedUnfreeze" ELSE "Ok",
             and_then(IF ~ts.transfers_enabled THEN "TransfersNotEnabled" ELSE "Ok",
                      IF ~ts.transfers_permanently_enabled
                      THEN "TransfersNotPermanentlyEnabled" ELSE "Ok")))
        out == thaw_account(L[a])
    IN  IF e # "Ok" THEN [err |-> e, ledger |-> L]
        ELSE IF out.err # "Ok" THEN [err |-> out.err, ledger |-> L]
        ELSE [err |-> "Ok", ledger |-> [L EXCEPT ![a] = out.account]]

\* The accounts of mint_to_treasury and burn_from_treasury: token_state and
\* the treasury are read first, then the constraints on mint, treasury and
\* admin; the handler repeats them and names the states the constraints let
\* through.
treasury_accounts(ts, L, signer, mint, treasury) ==
    IF ~ts.is_initialized \/ L[treasury] = NoTokenAccount THEN "AccountNotInitialized"
    ELSE IF ~(mint = ts.token_mint) THEN "InvalidTokenMint"
    ELSE IF ~(treasury = ts.treasury_account) THEN "InvalidTreasuryAccount"
    ELSE IF ~(signer = ts.admin) THEN "UnauthorizedAdmin"
    ELSE IF ~(ts.token_mint # "default") THEN "TokenMintNotCreated"
    ELSE IF ~(ts.treasury_account # "default") THEN "TreasuryNotCreated"
    ELSE "Ok"

mint_to_treasury_result(ts, L, signer, mint, treasury, amount) ==
    LET e == and_then(treasury_accounts(ts, L, signer, mint, treasury),
             and_then(IF ~(amount > 0) THEN "InvalidMintAmount" ELSE "Ok",
                      IF ~(L[treasury].mint = mint) THEN "MintMismatch" ELSE "Ok"))
        out == mint_to(L[treasury], amount)
    IN  IF e # "Ok" THEN [err |-> e, ledger |-> L]
        ELSE IF out.err # "Ok" THEN [err |-> out.err, ledger |-> L]
        ELSE [err |-> "Ok", ledger |-> [L EXCEPT ![treasury] = out.account]]

burn_from_treasury_result(ts, L, signer, mint, treasury, amount) ==
    LET e == and_then(treasury_accounts(ts, L, signer, mint, treasury),
             and_then(IF ~(amount > 0) THEN "InvalidBurnAmount" ELSE "Ok",
             and_then(IF ~(L[treasury].amount >= amount)
                      THEN "InsufficientTreasuryBalance" ELSE "Ok",
                      IF ~(L[treasury].mint = mint) THEN "MintMismatch" ELSE "Ok")))
        out == burn(L[treasury], amount)
    IN  IF e # "Ok" THEN [err |-> e, ledger |-> L]
        ELSE IF out.err # "Ok" THEN [err |-> out.err, ledger |-> L]
        ELSE [err |-> "Ok", ledger |-> [L EXCEPT ![treasury] = out.account]]

\* An instruction that touches token accounts only.
ledger_instruction(op, args, out) ==
    /\ ledger' = out.ledger
    /\ receipt' = Receipt(op, args, out.err)
    /\ UNCHANGED <<clock, token_state, user_data, consumed, redeemed, granted>>

mint_tokens(signer, mint, a, amount) ==
    ledger_instruction("mint_tokens",
                       [admin |-> signer, mint |-> mint, user_token_account |-> a, amount |-> amount],
                       mint_tokens_result(token_state, ledger, signer, mint, a, amount))

mint_to_treasury(signer, mint, treasury, amount) ==
    ledger_instruction("mint_to_treasury",
                       [admin |-> signer, mint |-> mint, treasury_account |-> treasury,
                        amount |-> amount],
                       mint_to_treasury_result(token_state, ledger, signer, mint, treasury, amount))

burn_from_treasury(signer, mint, treasury, amount) ==
    ledger_instruction("burn_from_treasury",
                       [admin |-> signer, mint |-> mint, treasury_account |-> treasury,
                        amount |-> amount],
                       burn_from_treasury_result(token_state, ledger, signer, mint, treasury,
                                                 amount))

freeze_token_account(signer, mint, a) ==
    ledger_instruction("freeze_token_account",
                       [admin |-> signer, mint |-> mint, token_account |-> a],
                       freeze_token_account_result(token_state, ledger, signer, mint, a))

burn_tokens(signer, user_authority, mint, a, amount) ==
    ledger_instruction("burn_tokens",
                       [admin |-> signer, user_authority |-> user_authority, mint |-> mint,
                        user_token_account |-> a, amount |-> amount],
                       burn_tokens_result(token_state, ledger, signer, user_authority, mint, a, amount))

transfer_tokens(from_authority, mint, from, to, amount) ==
    ledger_instruction("transfer_tokens",
                       [from_authority |-> from_authority, mint |-> mint,
                        from_token_account |-> from, to_token_account |-> to, amount |-> amount],
                       transfer_tokens_result(token_state, ledger, from_authority, mint, from, to, amount))

unfreeze_account(user, mint, a) ==
    ledger_instruction("unfreeze_account",
                       [user |-> user, mint |-> mint, user_token_account |-> a],
                       unfreeze_account_result(token_state, ledger, user, mint, a))

(***************************************************************************)
(* The callers: who submits what.                                          *)
(***************************************************************************)
AdminKey == "admin"
Signers == {"admin", "alice"}
InitPeriods == {3600}
UpdatePeriods == {3599, 3600}
MaxClaims == 2
Amounts == 0..2

\* The backend grants one unit per claim, to bob also two, and signs nothing else.
AdminSigns(payload) ==
    \/ payload.claim_amount = 1
    \/ payload.claim_amount = 2 /\ payload.user_address = "bob"

Filler(b, payload) == [by |-> "nobody", fill |-> b, program |-> ID, payload |-> payload]
SignedBy(k, payload) == [by |-> k, fill |-> 0, program |-> ID, payload |-> payload]
Granted(payload) ==
    IF AdminSigns(payload) THEN SignedBy(AdminKey, payload) ELSE Filler(170, payload)

Ix(kind, pk, sig, ix_index) ==
    [kind |-> kind, pk |-> pk, sig |-> sig, program |-> ID, payload |-> sig.payload,
     ix_index |-> ix_index]
Rec(pk, sig) == Ix("ed25519", pk, sig, ThisInstruction)
Claim(payload) == Ix("claim", "default", Filler(0, payload), ThisInstruction)

\* Another payload, which the backend did sign: the same claim for one unit,
\* or, of a claim for one unit, the same with a later expiry.
Neighbour(payload) ==
    IF payload.claim_amount = 1 THEN [payload EXCEPT !.expiry_time = @ + 1]
    ELSE [payload EXCEPT !.claim_amount = 1]

AuthShapes ==
    {"signed", "none", "late", "padded", "memo", "other_payload", "self_signed",
     "split", "zero", "elsewhere", "referenced", "double"}

\* The signature argument, the instructions and the claim's index, per shape.
Authorization(shape, user, p) ==
    LET ok  == Granted(p)
        far == SignedBy(AdminKey, Neighbour(p))
        own == SignedBy(user, p)
        auth(sig, tx, idx) == [admin_signature |-> sig, tx |-> tx, current_index |-> idx]
    IN  CASE shape = "signed" -> auth(ok, <<Rec(AdminKey, ok), Claim(p)>>, 1)
          [] shape = "none" -> auth(ok, <<Claim(p)>>, 0)
          [] shape = "late" -> auth(ok, <<Claim(p), Rec(AdminKey, ok)>>, 0)
          [] shape = "padded" ->
                auth(ok, <<Ix("empty", AdminKey, ok, ThisInstruction), Rec(AdminKey, ok),
                           Claim(p)>>, 2)
          [] shape = "memo" ->
                auth(ok, <<Ix("memo", AdminKey, ok, ThisInstruction), Claim(p)>>, 1)
          [] shape = "other_payload" -> auth(far, <<Rec(AdminKey, far), Claim(p)>>, 1)
          [] shape = "self_signed" -> auth(own, <<Rec(user, own), Claim(p)>>, 1)
          [] shape = "split" ->
                auth(far, <<Rec(AdminKey, far), Rec(user, own), Claim(p)>>, 2)
          [] shape = "zero" -> auth(Filler(0, p), <<Rec(AdminKey, ok), Claim(p)>>, 1)
          [] shape = "referenced" ->
                auth(ok, <<Ix("memo", AdminKey, ok, ThisInstruction),
                           Ix("header", AdminKey, ok, 0), Claim(p)>>, 2)
          [] shape = "double" -> auth(ok, <<Ix("double", AdminKey, ok, ThisInstruction), Claim(p)>>, 1)
          [] shape = "elsewhere" ->
                auth(Filler(170, p),
                     <<Ix("memo", user, own, ThisInstruction),
                       Ix("elsewhere", AdminKey, Filler(170, p), 0), Claim(p)>>, 2)

ConfiguredMint == IF token_state.token_mint = "default" THEN "mint1" ELSE token_state.token_mint

HomeAccount(user, mint) ==
    IF \E a \in TokenAccounts : NewTokenAccount(a).owner = user /\ NewTokenAccount(a).mint = mint
    THEN CHOOSE a \in TokenAccounts :
            NewTokenAccount(a).owner = user /\ NewTokenAccount(a).mint = mint
    ELSE CHOOSE a \in TokenAccounts : NewTokenAccount(a).owner = user

\* What a well-behaved client submits for the user now.
Baseline(user) ==
    [account |-> HomeAccount(user, ConfiguredMint), mint |-> ConfiguredMint,
     user_address |-> user, claim_amount |-> 1, expiry_time |-> FarFuture,
     nonce |-> user_data[user].nonce, auth |-> "signed"]

\* The ways a submission departs from it, one field at a time.
Deviations(user) ==
    LET b == Baseline(user)
    IN  {[f |-> "account", v |-> a] : a \in TokenAccounts \ {b.account}}
        \cup {[f |-> "mint", v |-> m] : m \in Mints \ {b.mint}}
        \cup {[f |-> "user_address", v |-> u] : u \in Users \ {user}}
        \cup {[f |-> "claim_amount", v |-> n] : n \in Amounts \ {b.claim_amount}}
        \cup {[f |-> "expiry_time", v |-> t] : t \in {clock - 1, clock}}
        \cup {[f |-> "nonce", v |-> n] : n \in {b.nonce - 1, b.nonce + 1}}
        \cup {[f |-> "auth", v |-> s] : s \in AuthShapes \ {b.auth}}

Deviate(c, d) == [c EXCEPT ![d.f] = d.v]

\* Two departures at once: an amount with the record of the signed amount,
\* a nonce with an expiry, an address with an account.
Paired(d, e) ==
    \/ d.f = "claim_amount" /\ e.f = "auth" /\ e.v = "other_payload"
    \/ d.f = "nonce" /\ e.f = "expiry_time"
    \/ d.f = "user_address" /\ e.f = "account"

Choices(user) ==
    LET b == Baseline(user)
        D == Deviations(user)
    IN  {b} \cup {Deviate(b, d) : d \in D}
            \cup UNION {{Deviate(Deviate(b, d), e) : e \in {e \in D : Paired(d, e)}} : d \in D}

Request(user, c) ==
    LET p == [user_address |-> c.user_address, claim_amount |-> c.claim_amount,
              expiry_time |-> c.expiry_time, nonce |-> c.nonce]
        a == Authorization(c.auth, user, p)
    IN  [user |-> user, user_token_account |-> c.account, mint |-> c.mint,
         payload |-> p, admin_signature |-> a.admin_signature, tx |-> a.tx,
         current_index |-> a.current_index]

ClaimRequests == UNION {{Request(u, c) : c \in Choices(u)} : u \in Users}

\* The redeemed claim, resubmitted as it was and with the accounts of today.
Replays ==
    IF redeemed.user = "default" THEN {}
    ELSE {redeemed,
          [redeemed EXCEPT !.mint = ConfiguredMint,
                           !.user_token_account = HomeAccount(redeemed.user, ConfiguredMint)]}

\* The successful claims so far, of all users.
claims_so_far == Len(consumed["alice"]) + Len(consumed["bob"])

(***************************************************************************)
(* The environment's steps.                                                *)
(***************************************************************************)
Tick ==
    /\ \E t \in ClockValues : t > clock /\ clock' = t
    /\ UNCHANGED <<token_state, user_data, ledger, receipt, consumed, redeemed, granted>>

\* The caller has read the outcome.
Ack ==
    /\ receipt.op # "none"
    /\ receipt' = NoReceipt
    /\ UNCHANGED <<clock, token_state, user_data, ledger, consumed, redeemed, granted>>

\* An observer keeps one successful claim to resubmit later.
Capture ==
    /\ receipt.op = "claim_tokens"
    /\ receipt.err = "Ok"
    /\ redeemed.user = "default"
    /\ redeemed' = receipt.args
    /\ receipt' = NoReceipt
    /\ UNCHANGED <<clock, token_state, user_data, ledger, consumed, granted>>

Idle == receipt.op = "none"

\* The cap on successful claims: past it, only claims with a nonce that is
\* not the stored one are submitted.
Admissible(req) ==
    claims_so_far < MaxClaims \/ req.payload.nonce # user_data[req.user].nonce

\* The operations on a configured deployment.
Operations ==
    \/ \E p \in InitPeriods, l \in BOOLEAN : initialize(AdminKey, "upgrader", p, l, TRUE)
    \/ \E s \in Signers : create_token_mint(s, "mint1")
    \/ \E s \in Signers, p \in UpdatePeriods, l \in BOOLEAN : update_time_lock(s, p, l)
    \/ \E s \in Signers, a \in TokenAccounts : unfreeze_token_account(s, ConfiguredMint, a)
    \/ \E u \in Users : initialize_user_data(u)

\* Claims of every shape against one configured mint.
Next ==
    \/ Idle /\ Tick
    \/ Ack
    \/ Idle /\ Operations
    \/ Idle /\ \E req \in ClaimRequests : Admissible(req) /\ claim_tokens(req)

Spec == Init /\ [][Next]_vars

\* Well-formed claims and resubmissions of a redeemed one, while the admin
\* also replaces the mint.
ReplayRequests == {Request(u, Baseline(u)) : u \in Users} \cup Replays

NextReplay ==
    \/ Idle /\ Tick
    \/ Ack
    \/ Capture
    \/ Idle /\ Operations
    \/ Idle /\ \E s \in Signers, m \in Mints : update_token_mint(s, m)
    \/ Idle /\ \E req \in ReplayRequests : Admissible(req) /\ claim_tokens(req)

SpecReplay == Init /\ [][NextReplay]_vars

(***************************************************************************)
(* A deployment late in its life: users whose nonce is at or near the end  *)
(* of the u64 range.                                                       *)
(***************************************************************************)
\* The policy after initialize and create_token_mint.
Deployed(time_lock_enabled) ==
    create_token_mint_result(
        initialize_result(NoTokenState, AdminKey, "upgrader", 3600, time_lock_enabled,
                          TRUE).token_state,
        AdminKey, "mint1").token_state

\* The nonces users start from: none used, and the last two of the range.
StartNonces == {0, u64_MAX - 1, u64_MAX}

\* The record of a user after n successful claims, the last of them at time 0.
Veteran(user, n, time_lock_enabled) ==
    IF n = 0 THEN initialize_user_data_result(NoUserData, user).user_data
    ELSE [exists |-> TRUE, user |-> user, nonce |-> n, last_claim_timestamp |-> 0,
          next_allowed_claim_time |-> IF time_lock_enabled THEN 3600 ELSE 1,
          total_claims |-> n]

InitOverflow ==
    /\ clock = 0
    /\ \E l \in BOOLEAN :
          /\ token_state = Deployed(l)
          /\ \E n \in [Users -> StartNonces] :
                user_data = [u \in Users |-> Veteran(u, n[u], l)]
    /\ ledger = NewLedger
    /\ receipt = NoReceipt
    /\ consumed = [u \in Users |-> <<>>]
    /\ redeemed = NoClaim
    /\ granted = [u \in Users |-> 0]

\* The well-formed claim and its departures in one field.
OverflowRequests ==
    UNION {{Request(u, c) :
               c \in {Baseline(u)} \cup {Deviate(Baseline(u), d) : d \in Deviations(u)}} :
           u \in Users}

NextOverflow ==
    \/ Idle /\ Tick
    \/ Ack
    \/ Idle /\ \E s \in Signers, a \in TokenAccounts : unfreeze_token_account(s, ConfiguredMint, a)
    \/ Idle /\ \E req \in OverflowRequests : Admissible(req) /\ claim_tokens(req)

SpecOverflow == InitOverflow /\ [][NextOverflow]_vars

(***************************************************************************)
(* The admin's policy instructions alone: every writer of the transfer     *)
(* flags, from a fresh deployment.                                         *)
(***************************************************************************)
NextTransfers ==
    \/ Idle /\ Tick
    \/ Ack
    \/ Idle /\ \E p \in InitPeriods, l \in BOOLEAN : initialize(AdminKey, "upgrader", p, l, TRUE)
    \/ Idle /\ \E s \in Signers, m \in Mints : create_token_mint(s, m)
    \/ Idle /\ \E s \in Signers, m \in Mints : update_token_mint(s, m)
    \/ Idle /\ \E s \in Signers, p \in UpdatePeriods, l \in BOOLEAN : update_time_lock(s, p, l)
    \/ Idle /\ \E s \in Signers : pause_transfers(s)
    \/ Idle /\ \E s \in Signers : resume_transfers(s)
    \/ Idle /\ \E s \in Signers : permanently_enable_transfers(s)
    \/ Idle /\ \E s \in Signers : enable_transfers(s)

SpecTransfers == Init /\ [][NextTransfers]_vars

(***************************************************************************)
(* A configured deployment with registered users, and every instruction    *)
(* that touches a token account or a user record.                          *)
(***************************************************************************)
MaxSupply == 2
LedgerAmounts == {0, 1}
supply(L) == L["alice_m1"].amount + L["bob_m1"].amount + L["alice_m2"].amount

InitLedger ==
    /\ clock = 0
    /\ token_state = Deployed(FALSE)
    /\ user_data = [u \in Users |-> Veteran(u, 0, FALSE)]
    /\ ledger = NewLedger
    /\ receipt = NoReceipt
    /\ consumed = [u \in Users |-> <<>>]
    /\ redeemed = NoClaim
    /\ granted = [u \in Users |-> 0]

\* The well-formed claim, and claims with another nonce or for another user.
LedgerRequests ==
    UNION {{Request(u, c) :
               c \in {Baseline(u)} \cup
                     {Deviate(Baseline(u), d) :
                          d \in {x \in Deviations(u) : x.f \in {"nonce", "user_address"}}}} :
           u \in Users}

NextLedger ==
    \/ Ack
    \/ Idle /\ \E s \in Signers : pause_transfers(s)
    \/ Idle /\ \E s \in Signers : resume_transfers(s)
    \/ Idle /\ \E s \in Signers : permanently_enable_transfers(s)
    \/ Idle /\ \E s \in Signers : enable_transfers(s)
    \/ Idle /\ \E s \in Signers, m \in Mints : update_token_mint(s, m)
    \/ Idle /\ \E s \in Signers, p \in UpdatePeriods : update_time_lock(s, p, FALSE)
    \/ Idle /\ \E s \in Signers, a \in TokenAccounts, n \in LedgerAmounts :
                  supply(ledger) < MaxSupply /\ mint_tokens(s, ConfiguredMint, a, n)
    \/ Idle /\ \E s \in Signers, a \in TokenAccounts : freeze_token_account(s, ConfiguredMint, a)
    \/ Idle /\ \E s \in Signers, a \in TokenAccounts : unfreeze_token_account(s, ConfiguredMint, a)
    \/ Idle /\ \E s \in Signers, u \in Users, a \in TokenAccounts, n \in LedgerAmounts :
                  burn_tokens(s, u, ConfiguredMint, a, n)
    \/ Idle /\ \E u \in Users, from \in TokenAccounts, to \in TokenAccounts, n \in LedgerAmounts :
                  transfer_tokens(u, ConfiguredMint, from, to, n)
    \/ Idle /\ \E u \in Users, a \in TokenAccounts : unfreeze_account(u, ConfiguredMint, a)
    \/ Idle /\ \E u \in Users : initialize_user_data(u)
    \/ Idle /\ \E req \in LedgerRequests : Admissible(req) /\ claim_tokens(req)

SpecLedger == InitLedger /\ [][NextLedger]_vars

\* The same deployment when claims are the only instructions that freeze an
\* account: every frozen account was frozen by a claim.
NextClaimFrozen ==
    \/ Ack
    \/ Idle /\ \E s \in Signers : pause_transfers(s)
    \/ Idle /\ \E s \in Signers : resume_transfers(s)
    \/ Idle /\ \E s \in Signers : permanently_enable_transfers(s)
    \/ Idle /\ \E s \in Signers : enable_transfers(s)
    \/ Idle /\ \E s \in Signers, a \in TokenAccounts : unfreeze_token_account(s, ConfiguredMint, a)
    \/ Idle /\ \E s \in Signers, u \in Users, a \in TokenAccounts, n \in LedgerAmounts :
                  burn_tokens(s, u, ConfiguredMint, a, n)
    \/ Idle /\ \E u \in Users, from \in TokenAccounts, to \in TokenAccounts, n \in LedgerAmounts :
                  transfer_tokens(u, ConfiguredMint, from, to, n)
    \/ Idle /\ \E u \in Users, a \in TokenAccounts : unfreeze_account(u, ConfiguredMint, a)
    \/ Idle /\ \E req \in LedgerRequests : Admissible(req) /\ claim_tokens(req)

SpecClaimFrozen == InitLedger /\ [][NextClaimFrozen]_vars

(***************************************************************************)
(* A fresh deployment and every instruction that reads or writes the       *)
(* policy record, with claim periods on both sides of each limit.          *)
(***************************************************************************)
PolicySigners == {"admin", "alice", "upgrader"}
ClaimPeriods == {29, 30, 3599, 3600, 31536000, 31536001}

NextPolicy ==
    \/ Ack
    \/ Idle /\ \E p \in ClaimPeriods, l \in BOOLEAN, up \in BOOLEAN :
                  initialize(AdminKey, "upgrader", p, l, up)
    \/ Idle /\ \E s \in PolicySigners, m \in Mints : create_token_mint(s, m)
    \/ Idle /\ \E s \in PolicySigners, m \in Mints : update_token_mint(s, m)
    \/ Idle /\ \E s \in Signers, p \in ClaimPeriods, l \in BOOLEAN : update_time_lock(s, p, l)
    \/ Idle /\ \E s \in PolicySigners : pause_transfers(s)
    \/ Idle /\ \E s \in PolicySigners : resume_transfers(s)
    \/ Idle /\ \E s \in PolicySigners : permanently_enable_transfers(s)
    \/ Idle /\ \E s \in PolicySigners : enable_transfers(s)
    \/ Idle /\ \E s \in PolicySigners, new \in {NoKey, SomeKey("alice"), SomeKey("upgrader")} :
                  set_upgrade_authority(s, new)
    \/ Idle /\ \E s \in PolicySigners, pd \in {"default", "program_data"} : validate_upgrade(s, pd)
    \/ Idle /\ \E s \in PolicySigners, m \in Mints : create_treasury(s, m)
    \/ Idle /\ check_transfers_enabled("alice")
    \/ Idle /\ initialize_user_data("alice")
    \/ Idle /\ unfreeze_account("alice", ConfiguredMint, HomeAccount("alice", ConfiguredMint))
    \/ Idle /\ \E to \in TokenAccounts :
                  transfer_tokens("alice", ConfiguredMint, HomeAccount("alice", ConfiguredMint), to, 1)
    \/ Idle /\ \E req \in {Request("alice", Baseline("alice"))} :
                  Admissible(req) /\ claim_tokens(req)

SpecPolicy == Init /\ [][NextPolicy]_vars

(***************************************************************************)
(* The life of the mint and of the treasury: the mint is created and       *)
(* replaced, a treasury is created for it, filled and emptied, while a     *)
(* user registers and claims.                                              *)
(***************************************************************************)
TreasurySigners == {AdminKey, "alice"}

NextTreasury ==
    \/ Ack
    \/ Idle /\ initialize(AdminKey, "upgrader", 3600, FALSE, TRUE)
    \/ Idle /\ \E s \in TreasurySigners, m \in Mints : create_token_mint(s, m)
    \/ Idle /\ \E s \in TreasurySigners, m \in Mints : update_token_mint(s, m)
    \/ Idle /\ \E s \in TreasurySigners, m \in Mints : create_treasury(s, m)
    \/ Idle /\ \E s \in TreasurySigners, m \in Mints, t \in TreasuryAccounts, n \in {0, 1} :
                  /\ ledger[t].amount + n <= MaxSupply
                  /\ mint_to_treasury(s, m, t, n)
    \/ Idle /\ \E s \in TreasurySigners, m \in Mints, t \in TreasuryAccounts, n \in {0, 1, 2} :
                  burn_from_treasury(s, m, t, n)
    \/ Idle /\ initialize_user_data("alice")
    \/ Idle /\ \E req \in {Request("alice", Baseline("alice"))} :
                  Admissible(req) /\ claim_tokens(req)

SpecTreasury == Init /\ [][NextTreasury]_vars

(***************************************************************************)
(* The verifier on its own: the admin's record for one payload, or none,   *)
(* with other instructions before and after it in the transaction.         *)
(***************************************************************************)
MaxJunk == 2

ScannedPayload ==
    [user_address |-> "alice", claim_amount |-> 1, expiry_time |-> FarFuture, nonce |-> 0]

\* Instructions that are not the admin's record for the payload: too short,
\* two signatures, a header whose offsets point past its end, another
\* program's instruction with the same bytes, and well-formed records over
\* another payload, from another signer, and with bytes nobody signed.
Junk ==
    LET ok == SignedBy(AdminKey, ScannedPayload) IN
    {Ix("empty", AdminKey, ok, ThisInstruction),
     Ix("double", AdminKey, ok, ThisInstruction),
     Ix("header", AdminKey, ok, 0),
     Ix("memo", AdminKey, ok, ThisInstruction),
     Rec(AdminKey, SignedBy(AdminKey, Neighbour(ScannedPayload))),
     Rec("alice", SignedBy("alice", ScannedPayload)),
     Rec(AdminKey, Filler(170, ScannedPayload))}

JunkRuns == UNION {[1..n -> Junk] : n \in 0..MaxJunk}

scanned(ds) ==
    verify_admin_signature_only(Transaction(ds), Len(ds),
                                build_message(ID, ScannedPayload),
                                signature_bytes(SignedBy(AdminKey, ScannedPayload)), AdminKey)

\* The verifier runs for a claim instruction that follows before, core and after.
verify_admin_signature(before, core, after) ==
    /\ receipt' = [op |-> "verify_admin_signature_only",
                   before |-> before, core |-> core, after |-> after,
                   err |-> scanned(before \o core \o after)]
    /\ UNCHANGED <<clock, token_state, user_data, ledger, consumed, redeemed, granted>>

NextVerifier ==
    \/ Ack
    \/ Idle /\ \E before \in JunkRuns, after \in JunkRuns,
                   core \in {<<>>, <<Rec(AdminKey, SignedBy(AdminKey, ScannedPayload))>>} :
                  verify_admin_signature(before, core, after)

SpecVerifier == Init /\ [][NextVerifier]_vars

(***************************************************************************)
(* The message builder on its own: two inputs are serialized side by side. *)
(* The values include ones that differ only in a higher byte, and the two  *)
(* ends of the u64 range.                                                  *)
(***************************************************************************)
MessageInputs ==
    [program_id : {"program", "program2"},
     payload : [user_address : Users, claim_amount : {0, 1, 256, u64_MAX},
                expiry_time : {0, 1, 256}, nonce : {0, 1, u64_MAX}]]

\* The bytes the handler assembles for each of two inputs.
message_bytes(first, second) ==
    /\ receipt' = [op |-> "message_bytes", first |-> first, second |-> second,
                   first_bytes |-> build_message(first.program_id, first.payload),
                   second_bytes |-> build_message(second.program_id, second.payload)]
    /\ UNCHANGED <<clock, token_state, user_data, ledger, consumed, redeemed, granted>>

NextMessage ==
    \/ Ack
    \/ Idle /\ \E first \in MessageInputs, second \in MessageInputs : message_bytes(first, second)

SpecMessage == Init /\ [][NextMessage]_vars

(***************************************************************************)
(* The record parser on its own, on byte strings of several lengths whose  *)
(* header fields point inside the data, at its end, and past it.           *)
(***************************************************************************)
ParserOffsets == {0, 16, 48, 49, 112, 256 * 256 - 1}

\* A header with the given fields, then bytes that differ by position, cut
\* to the length.
ParserData(num, sig_off, pk_off, msg_off, msg_size, length) ==
    SubSeq(record_header(num, sig_off, 0, pk_off, 0, msg_off, msg_size, 0)
               \o [i \in 1..(113 - HeaderLen) |-> i],
           1, length)

parse_instruction_data(data) ==
    /\ receipt' = [op |-> "parse_ed25519_single", data |-> data,
                   parsed |-> parse_ed25519_single(data), copy |-> parse(data)]
    /\ UNCHANGED <<clock, token_state, user_data, ledger, consumed, redeemed, granted>>

NextParser ==
    \/ Ack
    \/ Idle /\ \E num \in {0, 1, 2}, sig_off \in ParserOffsets, pk_off \in ParserOffsets,
                   msg_off \in ParserOffsets, msg_size \in {0, 1, 65, 256 * 256 - 1},
                   length \in {0, 2, 15, 16, 48, 80, 112, 113} :
                  parse_instruction_data(ParserData(num, sig_off, pk_off, msg_off, msg_size, length))

SpecParser == Init /\ [][NextParser]_vars

(***************************************************************************)
(* Reading a receipt.                                                      *)
(***************************************************************************)
Claimed == receipt.op = "claim_tokens"
Succeeded == Claimed /\ receipt.err = "Ok"
Req == receipt.args
Pre == receipt.pre
PreUser == Pre.user_data[Req.user]
PreAccount == Pre.ledger[Req.user_token_account]
ReqTx == Transaction(Req.tx)
ReqMessage == build_message(ID, Req.payload)
ReqSignature == signature_bytes(Req.admin_signature)

\* The preconditions of the claim of the receipt, in the order they are
\* checked, each judged on the state before the call.
CheckOrder ==
    <<"host", "accounts", "ready", "destination", "amount", "owner", "nonce", "time",
      "progression", "expiry", "format", "verified", "ledger", "overflow">>

Precondition(n) ==
    CASE n = "host" -> IF precompiles_pass(ReqTx) THEN "Ok" ELSE "PrecompileFailed"
      [] n = "accounts" -> ClaimTokens_accounts(Pre.token_state, PreUser, PreAccount, Req.mint)
      [] n = "ready" -> contract_ready(Pre.token_state, PreAccount, Req.mint)
      [] n = "destination" -> destination_binding(Req.payload, PreAccount, Req.user)
      [] n = "amount" -> amount_check(Req.payload)
      [] n = "owner" -> owner_check(PreUser, Req.user)
      [] n = "nonce" -> nonce_check(Req.payload, PreUser)
      [] n = "time" -> time_admission(Pre.token_state, PreUser, Pre.clock)
      [] n = "progression" -> nonce_progression(Req.payload, PreUser)
      [] n = "expiry" -> expiry_check(Req.payload, Pre.clock)
      [] n = "format" -> signature_format(ReqSignature)
      [] n = "verified" ->
            verify_admin_signature_only(ReqTx, Req.current_index, ReqMessage, ReqSignature,
                                        Pre.token_state.admin)
      [] n = "ledger" -> mint_and_freeze(PreAccount, Req.payload).err
      [] n = "overflow" -> advance_user_data(PreUser, Pre.token_state, Pre.clock).err

Position(n) == CHOOSE i \in 1..Len(CheckOrder) : CheckOrder[i] = n

\* Every precondition checked before n is met.
MetBefore(n) == \A i \in 1..(Position(n) - 1) : Precondition(CheckOrder[i]) = "Ok"

\* Every precondition other than those of S is met.
MetBut(S) ==
    \A i \in 1..Len(CheckOrder) : CheckOrder[i] \notin S => Precondition(CheckOrder[i]) = "Ok"

\* The call of the receipt wrote nothing.
NothingWritten ==
    /\ token_state = Pre.token_state
    /\ user_data = Pre.user_data
    /\ ledger = Pre.ledger

(***************************************************************************)
(* Nonces.                                                                 *)
(***************************************************************************)
\* C1. Nonce monotonicity: for every user the k-th successful claim ran with
\* stored nonce k-1 and left stored nonce k, so the stored nonce is the
\* number of successful claims; across any operation the stored nonce stays
\* or goes up by one, and it goes up exactly in that user's successful claim.
C1_NonceMonotone ==
    \A u \in Users :
        /\ \A k \in 1..Len(consumed[u]) : consumed[u][k] = k - 1
        /\ user_data[u].nonce = Len(consumed[u])
        /\ ~Idle =>
              LET d == user_data[u].nonce - Pre.user_data[u].nonce
              IN  /\ d \in {0, 1}
                  /\ d = 1 <=> (Succeeded /\ Req.user = u)

\* A second successful claim of one user has just run, on stored nonce 1.
C1_Witness ==
    /\ Succeeded
    /\ PreUser.nonce = 1
    /\ user_data[Req.user].nonce = 2
    /\ consumed[Req.user] = <<0, 1>>

\* The claim of the receipt resubmits the payload and signature of the
\* redeemed claim, for the same user.
Replayed ==
    /\ Claimed
    /\ redeemed.user # "default"
    /\ Req.user = redeemed.user
    /\ Req.payload = redeemed.payload
    /\ Req.admin_signature = redeemed.admin_signature

\* C2. Replay rejection, as the code has it: once a claim with payload P and
\* signature S has succeeded for a user, every later claim of that user with
\* the same P and S fails and writes nothing, whatever the clock and whatever
\* ran in between; its error is InvalidNonce whenever the checks that come
\* before the nonce check (accounts, mint, destination, amount) still pass.
C2_ReplayNeverRedeems ==
    Replayed =>
        /\ receipt.err # "Ok"
        /\ NothingWritten
        /\ MetBefore("nonce") => receipt.err = "InvalidNonce"

\* C2 as stated: every such resubmission fails with InvalidNonce.
C2_ReplayFailsWithInvalidNonce == Replayed => receipt.err = "InvalidNonce"

\* A resubmission was refused with InvalidNonce after the user had claimed
\* again and the clock had moved on a full period.
C2_Witness ==
    /\ Replayed
    /\ receipt.err = "InvalidNonce"
    /\ PreUser.nonce = 2
    /\ Pre.clock = 3600
    /\ NothingWritten

\* C3. Exact nonce equality: a claim whose payload nonce is not the stored
\* nonce, smaller or larger, never succeeds and writes nothing; when it gets
\* as far as the nonce check its error is InvalidNonce.  A successful claim
\* carried exactly the stored nonce.
C3_ExactNonce ==
    Claimed =>
        /\ Req.payload.nonce # PreUser.nonce =>
              /\ receipt.err # "Ok"
              /\ NothingWritten
              /\ MetBefore("nonce") => receipt.err = "InvalidNonce"
        /\ receipt.err = "Ok" => Req.payload.nonce = PreUser.nonce

\* A claim carrying the stored nonce plus one, otherwise in order, was refused.
C3_Witness ==
    /\ Claimed
    /\ Req.payload.nonce = PreUser.nonce + 1
    /\ MetBut({"nonce"})
    /\ receipt.err = "InvalidNonce"
    /\ NothingWritten

\* C4. No nonce twice: the host runs the transactions one after another, and
\* of the claims of one user that carry the same nonce at most one succeeds;
\* the successful one consumed a nonce no earlier claim of the user consumed.
C4_OneClaimPerNonce ==
    \A u \in Users :
        /\ \A i, j \in 1..Len(consumed[u]) : i # j => consumed[u][i] # consumed[u][j]
        /\ (Succeeded /\ Req.user = u) =>
              LET h == consumed[u]
              IN  /\ h[Len(h)] = Req.payload.nonce
                  /\ \A i \in 1..(Len(h) - 1) : h[i] # Req.payload.nonce

\* The second of two claims with one nonce, run after the first, was refused:
\* its nonce is one the user has consumed.
C4_Witness ==
    /\ Claimed
    /\ receipt.err = "InvalidNonce"
    /\ MetBut({"nonce", "progression"})
    /\ \E i \in 1..Len(consumed[Req.user]) : consumed[Req.user][i] = Req.payload.nonce

(***************************************************************************)
(* The verifier.                                                           *)
(***************************************************************************)
LE16(data, off) == data[off + 1] + 256 * data[off + 2]

\* The data is a one-signature record with every offset inside it, and its
\* key, signature and message are the given ones.
RecordCarries(data, pk, sig, msg) ==
    /\ Len(data) >= 16
    /\ data[1] = 1
    /\ LE16(data, 6) + 32 <= Len(data)
    /\ LE16(data, 2) + 64 <= Len(data)
    /\ LE16(data, 10) + LE16(data, 12) <= Len(data)
    /\ SubSeq(data, LE16(data, 6) + 1, LE16(data, 6) + 32) = pk
    /\ SubSeq(data, LE16(data, 2) + 1, LE16(data, 2) + 64) = sig
    /\ SubSeq(data, LE16(data, 10) + 1, LE16(data, 10) + LE16(data, 12)) = msg

Verified == verify_admin_signature_only(ReqTx, Req.current_index, ReqMessage, ReqSignature, AdminKey)

\* Some instruction of tx before position n is an Ed25519 record that carries
\* the three.
CarriedBefore(tx, n, pk, sig, msg) ==
    \E i \in 1..n :
        /\ i <= Len(tx)
        /\ tx[i].program_id = ed25519_program_ID
        /\ RecordCarries(tx[i].data, pk, sig, msg)

\* C5. The verifier succeeds if and only if one instruction before the
\* claim's own is addressed to the Ed25519 program and is a one-signature
\* record, offsets in bounds, that carries the expected message, the admin's
\* key and the given signature, all three in that one record; otherwise its
\* result is AdminSignatureNotVerified, which is then the error of a claim
\* that got that far.
C5_VerifierIff ==
    Claimed =>
        LET result == Verified
        IN  /\ result \in {"Ok", "AdminSignatureNotVerified"}
            /\ result = "Ok" <=>
                  CarriedBefore(ReqTx, Req.current_index, to_bytes(AdminKey),
                                ReqSignature, ReqMessage)
            /\ (result # "Ok" /\ MetBefore("verified")) => receipt.err = result

\* A claim was refused whose transaction has the admin's key and the given
\* signature in one record and the expected message in another.
C5_Witness ==
    /\ Claimed
    /\ MetBefore("verified")
    /\ receipt.err = "AdminSignatureNotVerified"
    /\ Req.current_index = 2
    /\ LET a == parse_ed25519_single(ReqTx[1].data)
           b == parse_ed25519_single(ReqTx[2].data)
       IN  /\ a.some /\ a.pk = to_bytes(AdminKey) /\ a.sig = ReqSignature
           /\ b.some /\ b.msg = ReqMessage

\* Every Ed25519 record of tx parses, and none is over msg; there is one.
only_other_messages(tx, msg) ==
    /\ \E i \in 1..Len(tx) : tx[i].program_id = ed25519_program_ID
    /\ \A i \in 1..Len(tx) :
          tx[i].program_id = ed25519_program_ID =>
              LET r == parse_ed25519_single(tx[i].data)
              IN  r.some /\ r.msg # msg

OnlyOtherMessages == only_other_messages(ReqTx, ReqMessage)

\* C6. Signature binding: when the only Ed25519 records of the transaction
\* are over a message other than the one rebuilt from the claim's payload,
\* the claim fails and mints nothing, with AdminSignatureNotVerified once the
\* earlier checks pass, even if key and signature bytes are the record's.
C6_SignatureBinding ==
    (Claimed /\ OnlyOtherMessages) =>
        /\ receipt.err # "Ok"
        /\ NothingWritten
        /\ MetBefore("verified") => receipt.err = "AdminSignatureNotVerified"

\* A claim of two units over the admin's record for one unit, presenting the
\* record's own key and signature, was refused.
C6_Witness ==
    /\ Claimed
    /\ OnlyOtherMessages
    /\ MetBefore("verified")
    /\ receipt.err = "AdminSignatureNotVerified"
    /\ Req.payload.claim_amount = 2
    /\ Req.tx[1].payload = [Req.payload EXCEPT !.claim_amount = 1]
    /\ LET r == parse_ed25519_single(ReqTx[1].data)
       IN  r.pk = to_bytes(AdminKey) /\ r.sig = ReqSignature
    /\ ledger = Pre.ledger

\* The precompile checked the three in an instruction of tx before position n.
checked_before(tx, n, pk, sig, msg) ==
    \E i \in 1..n :
        /\ tx[i].program_id = ed25519_program_ID
        /\ \E j \in 0..(tx[i].data[1] - 1) :
              precompile_checked(tx, tx[i].data, j) = [sig |-> sig, pk |-> pk, msg |-> msg]

\* C7 as stated: whenever the verifier succeeds in a transaction the platform
\* ran, the precompile checked the given signature under the admin's key over
\* the expected message in an instruction before the claim's.
C7_PrecompileCheckedTheBytes ==
    (Claimed /\ Precondition("host") = "Ok" /\ Verified = "Ok") =>
        checked_before(ReqTx, Req.current_index, to_bytes(AdminKey), ReqSignature, ReqMessage)

(***************************************************************************)
(* Destination, expiry, time-lock.                                         *)
(***************************************************************************)
Bound == Req.payload.user_address = Req.user /\ PreAccount.owner = Req.user

\* C8. Destination binding: a claim succeeds only if the payload's address
\* and the owner of the destination account are both the signer; a claim that
\* gets as far as the binding without both fails with UnauthorizedDestination;
\* a claim changes no token account but one owned by the signer named in the
\* payload.
C8_DestinationBinding ==
    Claimed =>
        /\ receipt.err = "Ok" => Bound
        /\ (MetBefore("destination") /\ ~Bound) => receipt.err = "UnauthorizedDestination"
        /\ \A a \in TokenAccounts :
              ledger[a] # Pre.ledger[a] =>
                  Pre.ledger[a].owner = Req.user /\ Req.payload.user_address = Req.user

\* Bob submitted a payload the admin signed for alice, all else in order, and
\* was refused.
C8_Witness ==
    /\ Claimed
    /\ Req.user = "bob"
    /\ Req.payload.user_address = "alice"
    /\ MetBut({"destination"})
    /\ receipt.err = "UnauthorizedDestination"
    /\ NothingWritten

\* C9. Expiry boundary: with every other precondition met, a claim whose
\* expiry is the current time succeeds and one whose expiry is a second
\* earlier fails with ClaimExpired; no claim succeeds past its expiry.
C9_ExpiryBoundary ==
    Claimed =>
        /\ receipt.err = "Ok" => Pre.clock <= Req.payload.expiry_time
        /\ MetBut({"expiry"}) =>
              /\ Pre.clock <= Req.payload.expiry_time => receipt.err = "Ok"
              /\ Pre.clock > Req.payload.expiry_time => receipt.err = "ClaimExpired"

\* A claim expiring at this very second, an hour in, succeeded.
C9_Witness ==
    /\ Succeeded
    /\ Req.payload.expiry_time = Pre.clock
    /\ Pre.clock = 3600

\* The user of the receipt claimed before, at a time when the time-lock was on
\* with the period of today, and the time-lock is on.
LockedSincePreviousClaim ==
    /\ Pre.token_state.time_lock_enabled
    /\ PreUser.total_claims # 0
    /\ PreUser.next_allowed_claim_time =
          PreUser.last_claim_timestamp + Pre.token_state.claim_period_seconds

InsidePeriod ==
    /\ Claimed
    /\ MetBefore("time")
    /\ Pre.token_state.time_lock_enabled
    /\ PreUser.total_claims # 0
    /\ Pre.clock < PreUser.last_claim_timestamp + Pre.token_state.claim_period_seconds

\* C11. Inside the period, as the code has it: with the time-lock on, a claim
\* with the correct nonce submitted before last_claim_timestamp + period
\* fails and writes nothing; its error is ClaimTimeLocked while the clock is
\* before next_allowed_claim_time, which is always so when the previous claim
\* ran under the same time-lock and period, and ClaimPeriodNotElapsed only
\* when next_allowed_claim_time has passed already.
C11_InsidePeriodRefused ==
    InsidePeriod =>
        /\ NothingWritten
        /\ receipt.err = IF Pre.clock < PreUser.next_allowed_claim_time
                         THEN "ClaimTimeLocked" ELSE "ClaimPeriodNotElapsed"
        /\ LockedSincePreviousClaim => receipt.err = "ClaimTimeLocked"

\* C11 as stated: the second claim, with nonce 1, inside the period of 3600
\* fails with ClaimPeriodNotElapsed.
C11_FailsWithClaimPeriodNotElapsed ==
    (InsidePeriod /\ Pre.token_state.claim_period_seconds = 3600 /\ Req.payload.nonce = 1) =>
        receipt.err = "ClaimPeriodNotElapsed"

\* A second claim with nonce 1, one second before the period of 3600 ends,
\* was refused with ClaimTimeLocked.
C11_Witness ==
    /\ InsidePeriod
    /\ LockedSincePreviousClaim
    /\ Req.payload.nonce = 1
    /\ Pre.token_state.claim_period_seconds = 3600
    /\ Pre.clock = PreUser.last_claim_timestamp + 3599
    /\ receipt.err = "ClaimTimeLocked"

\* C12 as stated: with the time-lock off, a claim of a user who has claimed
\* before succeeds only if the clock is past the time of that claim, so two
\* successful claims of one user are at least one second apart.
C12_OneSecondApart ==
    (Succeeded /\ ~Pre.token_state.time_lock_enabled /\ PreUser.total_claims # 0) =>
        Pre.clock > PreUser.last_claim_timestamp

(***************************************************************************)
(* The effect of a claim.                                                  *)
(***************************************************************************)
\* C13. A successful claim at clock time now leaves the user's record as it
\* was but for: nonce one more, last_claim_timestamp = now, total_claims one
\* more, next_allowed_claim_time = now + claim_period_seconds when the
\* time-lock is on and now + 1 when it is off; no other user's record changes.
C13_SuccessEffect ==
    Succeeded =>
        /\ user_data[Req.user] =
              [PreUser EXCEPT
                 !.nonce = @ + 1,
                 !.last_claim_timestamp = Pre.clock,
                 !.total_claims = @ + 1,
                 !.next_allowed_claim_time =
                     IF Pre.token_state.time_lock_enabled
                     THEN Pre.clock + Pre.token_state.claim_period_seconds
                     ELSE Pre.clock + 1]
        /\ \A u \in Users \ {Req.user} : user_data[u] = Pre.user_data[u]

\* A claim succeeded at 3600 under the time-lock: the next is allowed at 7200.
C13_Witness ==
    /\ Succeeded
    /\ Pre.token_state.time_lock_enabled
    /\ Pre.clock = 3600
    /\ user_data[Req.user].last_claim_timestamp = 3600
    /\ user_data[Req.user].next_allowed_claim_time = 7200

\* The token accounts of a user, and what they hold together.
AccountsOf(u) == {a \in TokenAccounts : ledger[a].owner = u}

RECURSIVE Holdings(_)
Holdings(A) ==
    IF A = {} THEN 0
    ELSE LET a == CHOOSE x \in A : TRUE IN ledger[a].amount + Holdings(A \ {a})

\* C14. Every successful claim credits exactly payload.claim_amount, which is
\* not zero, to the destination account and to no other account; so what
\* claims have minted to a user is the sum of claim_amount over that user's
\* successful claims, one per consumed nonce; and a claim that reaches the
\* amount check with claim_amount = 0 fails with InvalidMintAmount.
C14_MintsExactlyTheAmount ==
    /\ \A u \in Users : Holdings(AccountsOf(u)) = granted[u]
    /\ Succeeded =>
          /\ Req.payload.claim_amount > 0
          /\ ledger[Req.user_token_account].amount =
                PreAccount.amount + Req.payload.claim_amount
          /\ \A a \in TokenAccounts \ {Req.user_token_account} : ledger[a] = Pre.ledger[a]
          /\ Len(consumed[Req.user]) = PreUser.nonce + 1
    /\ (Claimed /\ MetBefore("amount") /\ Req.payload.claim_amount = 0) =>
          receipt.err = "InvalidMintAmount" /\ NothingWritten

\* A second claim of a user succeeded, for two units after one for one unit:
\* the user holds three.
C14_Witness ==
    /\ Succeeded
    /\ Req.payload.claim_amount = 2
    /\ PreAccount.amount = 1
    /\ ledger[Req.user_token_account].amount = 3
    /\ granted[Req.user] = 3

u64_less(a, b) == IF (a < 0) = (b < 0) THEN a < b ELSE b < 0

\* C17. With the stored nonce at u64::MAX, a claim that passes every
\* precondition fails with NonceOverflow, mints nothing and writes nothing;
\* across any operation no stored nonce goes down, so none wraps.
C17_NonceOverflow ==
    /\ (Claimed /\ PreUser.nonce = u64_MAX /\ MetBut({"overflow"})) =>
          receipt.err = "NonceOverflow" /\ NothingWritten
    /\ ~Idle => \A u \in Users : ~u64_less(user_data[u].nonce, Pre.user_data[u].nonce)

\* A claim with nonce u64::MAX, signed and in time, was refused with
\* NonceOverflow; the stored nonce is still u64::MAX.
C17_Witness ==
    /\ Claimed
    /\ PreUser.nonce = u64_MAX
    /\ Req.payload.nonce = u64_MAX
    /\ MetBut({"overflow"})
    /\ receipt.err = "NonceOverflow"
    /\ user_data[Req.user].nonce = u64_MAX

(***************************************************************************)
(* The order of the checks.                                                *)
(***************************************************************************)
\* The error of the first precondition, from the i-th of CheckOrder on, that
\* the claim of the receipt violates; Ok if it violates none.
RECURSIVE FirstViolatedFrom(_)
FirstViolatedFrom(i) ==
    IF i > Len(CheckOrder) THEN "Ok"
    ELSE LET e == Precondition(CheckOrder[i])
         IN  IF e # "Ok" THEN e ELSE FirstViolatedFrom(i + 1)

\* C16. A claim returns the error of the earliest precondition it violates,
\* in the order: policy and mint identity, destination binding, amount,
\* record owner, nonce, time admission, expiry, signature; so a stale nonce
\* inside the time-lock window fails with InvalidNonce.  The time admission
\* fails with ClaimTimeLocked, ClaimPeriodNotElapsed or ClaimTooSoon only.
C16_EarliestViolationReported ==
    Claimed =>
        /\ receipt.err = FirstViolatedFrom(1)
        /\ Position("ready") < Position("destination")
        /\ Position("destination") < Position("amount")
        /\ Position("amount") < Position("owner")
        /\ Position("owner") < Position("nonce")
        /\ Position("nonce") < Position("time")
        /\ Position("time") < Position("expiry")
        /\ Position("expiry") < Position("format")
        /\ Position("format") < Position("verified")
        /\ receipt.err \notin {"ClaimTooFrequent", "InvalidNonceSequence"}

\* A claim with the nonce already used, submitted inside the time-lock
\* window, failed with InvalidNonce.
C16_Witness ==
    /\ Claimed
    /\ MetBefore("nonce")
    /\ Req.payload.nonce = 0
    /\ PreUser.nonce = 1
    /\ Precondition("time") = "ClaimTimeLocked"
    /\ receipt.err = "InvalidNonce"

(***************************************************************************)
(* The transfer flags.                                                     *)
(***************************************************************************)
\* C18. transfers_permanently_enabled is a one-way latch: no step of any
\* operation, by any caller, takes it from true to false.
C18_PermanentLatch ==
    [][token_state.transfers_permanently_enabled =>
           token_state'.transfers_permanently_enabled]_vars

\* With the latch set, the admin created the mint: the latch is still set.
C18_Witness ==
    /\ receipt.op = "create_token_mint"
    /\ receipt.err = "Ok"
    /\ Pre.token_state.transfers_permanently_enabled
    /\ token_state.transfers_permanently_enabled

\* C19 as stated: in every reachable state, transfers permanently enabled
\* implies transfers enabled.
C19_PermanentImpliesEnabled ==
    token_state.transfers_permanently_enabled => token_state.transfers_enabled

(***************************************************************************)
(* The user's record.                                                      *)
(***************************************************************************)
\* C20. initialize_user_data succeeds for a user who has no record, and
\* leaves nonce, last_claim_timestamp, next_allowed_claim_time and
\* total_claims at 0; for a user who has a record it fails and writes
\* nothing, so it resets no field; and no operation removes a record.
C20_InitializeUserDataOnce ==
    /\ receipt.op = "initialize_user_data" =>
          LET u == receipt.args.user
          IN  IF Pre.user_data[u].exists
              THEN receipt.err # "Ok" /\ NothingWritten
              ELSE /\ receipt.err = "Ok"
                   /\ user_data[u] =
                         [exists |-> TRUE, user |-> u, nonce |-> 0,
                          last_claim_timestamp |-> 0, next_allowed_claim_time |-> 0,
                          total_claims |-> 0]
                   /\ \A v \in Users \ {u} : user_data[v] = Pre.user_data[v]
    /\ ~Idle => \A u \in Users : Pre.user_data[u].exists => user_data[u].exists

\* A second initialize_user_data, for a user whose nonce is 1, failed: the
\* nonce is still 1.
C20_Witness ==
    /\ receipt.op = "initialize_user_data"
    /\ Pre.user_data[receipt.args.user].nonce = 1
    /\ receipt.err # "Ok"
    /\ user_data[receipt.args.user].nonce = 1
    /\ user_data[receipt.args.user].total_claims = 1

\* C21. Once a user's record exists it is never deleted, and no instruction
\* changes it except a successful claim_tokens of that same user: claims of
\* other users, failed claims, mint, burn, transfer, freeze and thaw
\* instructions and the admin's policy instructions leave it as it was.
C21_UserRecordOwnClaimOnly ==
    ~Idle =>
        \A u \in Users :
            Pre.user_data[u].exists =>
                /\ user_data[u].exists
                /\ user_data[u].user = u
                /\ user_data[u] # Pre.user_data[u] => Succeeded /\ Req.user = u

\* A user's record differs after that user's claim while the other user's
\* record, already advanced by an earlier claim, is as it was.
C21_Witness ==
    /\ Succeeded
    /\ \E u \in Users \ {Req.user} :
          /\ user_data[u].nonce = 1
          /\ user_data[u] = Pre.user_data[u]
    /\ user_data[Req.user] # PreUser

\* C22. The signed message is a function of program identity, destination,
\* amount, expiry and nonce: built again from the same input it is the same
\* byte string, and two inputs give the same byte string only when they
\* agree in every one of these fields.
C22_MessageDeterministicInjective ==
    receipt.op = "message_bytes" =>
        /\ build_message(receipt.first.program_id, receipt.first.payload) = receipt.first_bytes
        /\ (receipt.first_bytes = receipt.second_bytes) <=> (receipt.first = receipt.second)

\* Two inputs that differ in the nonce alone, and two whose amounts differ
\* only in which byte is set, give different byte strings.
C22_Witness ==
    /\ receipt.op = "message_bytes"
    /\ receipt.first_bytes # receipt.second_bytes
    /\ receipt.first.program_id = receipt.second.program_id
    /\ \/ /\ receipt.first.payload.nonce # receipt.second.payload.nonce
          /\ receipt.first.payload = [receipt.second.payload EXCEPT !.nonce = receipt.first.payload.nonce]
       \/ /\ receipt.first.payload.claim_amount = 1
          /\ receipt.second.payload = [receipt.first.payload EXCEPT !.claim_amount = 256]

\* C23. The configured mint is part of what the admin signs: a claim that
\* succeeds under the configured mint is refused, with the same payload,
\* signature and transaction, when another mint is the configured one and
\* the user presents the account they hold of that mint.
C23_MintBoundInMessage ==
    Succeeded =>
        \A a \in TokenAccounts :
            (Pre.ledger[a].owner = Req.user /\ Pre.ledger[a].mint # Pre.token_state.token_mint) =>
                claim_transaction([Pre.token_state EXCEPT !.token_mint = Pre.ledger[a].mint],
                                  PreUser, Pre.ledger[a], Pre.clock,
                                  [Req EXCEPT !.mint = Pre.ledger[a].mint,
                                              !.user_token_account = a]).err # "Ok"

\* C24. After a successful claim_tokens and after a successful mint_tokens
\* the destination token account is frozen and holds the minted amount on
\* top of what it held, whatever the two transfer flags are.
C24_DestinationFrozenAfterMint ==
    (~Idle /\ receipt.op \in {"claim_tokens", "mint_tokens"} /\ receipt.err = "Ok") =>
        /\ ledger[Req.user_token_account].frozen
        /\ ledger[Req.user_token_account].amount > Pre.ledger[Req.user_token_account].amount

\* mint_tokens succeeded on a thawed account after transfers were
\* permanently enabled, and left it frozen.
C24_Witness ==
    /\ receipt.op = "mint_tokens"
    /\ receipt.err = "Ok"
    /\ Pre.token_state.transfers_permanently_enabled
    /\ Pre.token_state.transfers_enabled
    /\ ~Pre.ledger[Req.user_token_account].frozen
    /\ Pre.ledger[Req.user_token_account].amount = 1
    /\ ledger[Req.user_token_account].frozen

\* C25. An account a claim froze is thawed only by the admin's
\* unfreeze_token_account, or by its owner's unfreeze_account once
\* transfers_enabled and transfers_permanently_enabled are both set; no
\* other instruction, and no other signer, thaws it.
C25_ThawedByAdminOrAfterLatch ==
    ~Idle =>
        \A a \in TokenAccounts :
            (Pre.ledger[a].frozen /\ ~ledger[a].frozen) =>
                /\ receipt.err = "Ok"
                /\ \/ /\ receipt.op = "unfreeze_token_account"
                      /\ Req.token_account = a
                      /\ Req.admin = Pre.token_state.admin
                   \/ /\ receipt.op = "unfreeze_account"
                      /\ Req.user_token_account = a
                      /\ Req.user = Pre.ledger[a].owner
                      /\ Pre.token_state.transfers_enabled
                      /\ Pre.token_state.transfers_permanently_enabled

\* C25 as stated. An account a claim froze is frozen after every instruction
\* that ends with transfers_permanently_enabled false.
C25_ClaimFrozenStaysFrozen ==
    ~Idle =>
        \A a \in TokenAccounts :
            (Pre.ledger[a].frozen /\ ~token_state.transfers_permanently_enabled) =>
                ledger[a].frozen

\* The owner thaws the account their claim froze, after the latch.
C25_Witness ==
    /\ receipt.op = "unfreeze_account"
    /\ receipt.err = "Ok"
    /\ granted[Req.user] > 0
    /\ Pre.ledger[Req.user_token_account].frozen
    /\ ~ledger[Req.user_token_account].frozen

\* C26. Once the policy record is initialized claim_period_seconds is
\* between 3600 (one hour) and 31536000 (one year) inclusive, and initialize
\* and update_time_lock refuse a period outside that range with
\* InvalidClaimPeriod, leaving the policy as it was.
C26_ClaimPeriodInRange ==
    /\ token_state.is_initialized =>
            (3600 <= token_state.claim_period_seconds
                /\ token_state.claim_period_seconds <= 31536000)
    /\ (/\ receipt.op \in {"initialize", "update_time_lock"}
        /\ receipt.err \in {"Ok", "InvalidClaimPeriod"}
        /\ ~(3600 <= Req.claim_period_seconds /\ Req.claim_period_seconds <= 31536000)) =>
            (receipt.err = "InvalidClaimPeriod" /\ token_state = Pre.token_state)

\* C27. Instructions that are malformed Ed25519 records, records that do
\* not match, or instructions of other programs, put before or after the
\* admin's record, raise no error and do not change the verifier's answer:
\* it is what it is without them, Ok when the admin's record is there and
\* AdminSignatureNotVerified when it is not.
C27_JunkChangesNothing ==
    receipt.op = "verify_admin_signature_only" =>
        /\ receipt.err \in {"Ok", "AdminSignatureNotVerified"}
        /\ receipt.err = scanned(receipt.core)
        /\ (receipt.err = "Ok") <=> (receipt.core # <<>>)

\* The admin's record between a malformed record and a well-formed record
\* that does not match: verified.
C27_Witness ==
    /\ receipt.op = "verify_admin_signature_only"
    /\ receipt.err = "Ok"
    /\ Len(receipt.before) = 2
    /\ receipt.before[1].kind = "double"
    /\ Len(receipt.after) > 0
    /\ receipt.after[1].kind = "ed25519"

\* C28. Only the instructions before the claim's own count: a claim that
\* passed every earlier check and whose transaction has the admin's record
\* only at the claim's index or after it fails with
\* AdminSignatureNotVerified and writes nothing.
C28_OnlyEarlierInstructionsCount ==
    (/\ Claimed
     /\ MetBefore("verified")
     /\ ~CarriedBefore(ReqTx, Req.current_index, to_bytes(AdminKey), ReqSignature, ReqMessage)
     /\ \E i \in (Req.current_index + 1)..Len(ReqTx) :
            /\ ReqTx[i].program_id = ed25519_program_ID
            /\ RecordCarries(ReqTx[i].data, to_bytes(AdminKey), ReqSignature, ReqMessage)) =>
        (receipt.err = "AdminSignatureNotVerified" /\ NothingWritten)

\* A claim at index 0 with the admin's record, valid where it stands, at
\* index 1 was refused.
C28_Witness ==
    /\ Claimed
    /\ MetBefore("verified")
    /\ Req.current_index = 0
    /\ Len(ReqTx) = 2
    /\ ReqTx[2].program_id = ed25519_program_ID
    /\ RecordCarries(ReqTx[2].data, to_bytes(AdminKey), ReqSignature, ReqMessage)
    /\ ed25519_verify(to_bytes(AdminKey), ReqSignature, ReqMessage)
    /\ receipt.err = "AdminSignatureNotVerified"

\* The upgrade authority has been removed.
Removed ==
    /\ token_state.is_initialized
    /\ token_state.upgrade_authority = "default"
    /\ ~token_state.upgradeable

\* C29. Removing the upgrade authority is a one-way latch: a successful
\* set_upgrade_authority(None) leaves upgradeable false and the upgrade
\* authority the zero key, every step keeps them so, every later
\* set_upgrade_authority and validate_upgrade fails (a call signed with the
\* zero key itself would fail with ContractNotUpgradeable), and no step of
\* an initialized contract takes upgradeable from false to true.
C29_UpgradeRemovalLatch ==
    [][/\ (/\ receipt'.op = "set_upgrade_authority"
           /\ receipt' # receipt
           /\ receipt'.err = "Ok"
           /\ ~receipt'.args.new_upgrade_authority.some) => Removed'
       /\ Removed => Removed'
       /\ (/\ Removed
           /\ receipt'.op \in {"set_upgrade_authority", "validate_upgrade"}
           /\ receipt' # receipt) => (receipt'.err # "Ok" /\ token_state' = token_state)
       /\ Removed =>
              \A new \in {NoKey, SomeKey("upgrader")} :
                  /\ set_upgrade_authority_result(token_state, "default", new).err
                        = "ContractNotUpgradeable"
                  /\ validate_upgrade_result(token_state, "default", "program_data").err
                        = "ContractNotUpgradeable"
       /\ (token_state.is_initialized /\ ~token_state.upgradeable) =>
              ~token_state'.upgradeable]_vars

\* After the removal the former upgrade authority asked for an upgrade to be
\* validated and was refused.
C29_Witness ==
    /\ receipt.op = "validate_upgrade"
    /\ Removed
    /\ Pre.token_state = token_state
    /\ Req.upgrade_authority = "upgrader"
    /\ Req.program_data # "default"
    /\ receipt.err = "UnauthorizedUpgradeAuthority"

\* The instructions that write the policy record after initialize.
PolicyWriters ==
    {"create_token_mint", "update_token_mint", "update_time_lock", "pause_transfers",
     "resume_transfers", "permanently_enable_transfers", "enable_transfers",
     "set_upgrade_authority", "create_treasury"}

\* The call of the receipt, had s signed it.
Resigned(s) ==
    CASE receipt.op = "create_token_mint" ->
            create_token_mint_result(Pre.token_state, s, Req.mint)
      [] receipt.op = "update_token_mint" ->
            update_token_mint_result(Pre.token_state, s, Req.mint)
      [] receipt.op = "update_time_lock" ->
            update_time_lock_result(Pre.token_state, s, Req.claim_period_seconds,
                                    Req.time_lock_enabled)
      [] receipt.op = "set_upgrade_authority" ->
            set_upgrade_authority_result(Pre.token_state, s, Req.new_upgrade_authority)
      [] receipt.op = "create_treasury" ->
            create_treasury_result(Pre.token_state, Pre.ledger, s, Req.mint)
      [] OTHER -> transfer_switch_result(receipt.op, Pre.token_state, s, Pre.clock)

\* C30. After initialize the policy record changes only in a successful
\* instruction of the admin's (of the upgrade authority's, for
\* set_upgrade_authority): every successful such instruction is signed by
\* the stored key, the same call signed by anyone else fails with
\* UnauthorizedAdmin (UnauthorizedUpgradeAuthority) and would change nothing,
\* and claim_tokens, initialize_user_data, unfreeze_account, transfer_tokens
\* and check_transfers_enabled never change the record.
C30_PolicyWrittenByAdminOnly ==
    (~Idle /\ receipt.op # "initialize") =>
        /\ token_state # Pre.token_state =>
                (receipt.err = "Ok" /\ receipt.op \in PolicyWriters)
        /\ (receipt.err = "Ok" /\ receipt.op \in PolicyWriters) =>
                LET by_upgrade_authority == receipt.op = "set_upgrade_authority"
                    signer == IF by_upgrade_authority THEN Req.current_upgrade_authority
                              ELSE Req.admin
                    stored == IF by_upgrade_authority THEN Pre.token_state.upgrade_authority
                              ELSE Pre.token_state.admin
                IN  /\ signer = stored
                    /\ \A s \in PolicySigners \ {stored} :
                          /\ Resigned(s).err = IF by_upgrade_authority
                                               THEN "UnauthorizedUpgradeAuthority"
                                               ELSE "UnauthorizedAdmin"
                          /\ Resigned(s).token_state = Pre.token_state

\* The upgrade authority, by now alice, handed its role on; and the admin
\* has no say in it.
C30_Witness ==
    /\ receipt.op = "set_upgrade_authority"
    /\ receipt.err = "Ok"
    /\ Pre.token_state.upgrade_authority = "alice"
    /\ Req.current_upgrade_authority = "alice"
    /\ token_state # Pre.token_state
    /\ Resigned("admin").err = "UnauthorizedUpgradeAuthority"

\* C31. Once transfers are permanently enabled and a mint is configured, the
\* owner of a frozen token account of that mint can thaw it: unfreeze_account
\* signed by the owner succeeds.
C31_OwnerThawsAfterLatch ==
    (/\ receipt.op = "unfreeze_account"
     /\ Pre.token_state.transfers_permanently_enabled
     /\ Pre.token_state.token_mint # "default"
     /\ Req.mint = Pre.token_state.token_mint
     /\ Pre.ledger[Req.user_token_account].mint = Pre.token_state.token_mint
     /\ Pre.ledger[Req.user_token_account].frozen
     /\ Req.user = Pre.ledger[Req.user_token_account].owner) =>
        receipt.err = "Ok"

\* The fields of a parsed record lie inside the data, where the header says.
InsideData(data, out) ==
    /\ Len(data) >= 16
    /\ data[1] = 1
    /\ LE16(data, 6) + 32 <= Len(data)
    /\ LE16(data, 2) + 64 <= Len(data)
    /\ LE16(data, 10) + LE16(data, 12) <= Len(data)
    /\ out.pk = [i \in 1..32 |-> data[LE16(data, 6) + i]]
    /\ out.sig = [i \in 1..64 |-> data[LE16(data, 2) + i]]
    /\ out.msg = [i \in 1..LE16(data, 12) |-> data[LE16(data, 10) + i]]

\* C32. On every byte string the record parser, in both copies, returns
\* None or a key, a signature and a message that lie wholly inside the data:
\* each end offset has been compared with the length before the read, and a
\* string whose fields do not fit gives None.
C32_ParserReadsInsideData ==
    receipt.op = "parse_ed25519_single" =>
        /\ receipt.parsed.some => InsideData(receipt.data, receipt.parsed)
        /\ receipt.copy.some => InsideData(receipt.data, receipt.copy)
        /\ receipt.parsed = receipt.copy
        /\ (~receipt.parsed.some) => receipt.parsed = NoRecord

\* A record whose message ends at the last byte was parsed, and one whose
\* message ends one byte past it was not.
C32_Witness ==
    /\ receipt.op = "parse_ed25519_single"
    /\ Len(receipt.data) = 113
    /\ receipt.parsed.some
    /\ LE16(receipt.data, 10) = 112
    /\ Len(receipt.parsed.msg) = 1
    /\ ~parse_ed25519_single(SubSeq(receipt.data, 1, 112)).some

\* C33. unfreeze_account succeeds only when transfers_enabled and
\* transfers_permanently_enabled are both set and the signer owns the
\* account; when transfers are enabled but not permanently, as after
\* resume_transfers, the owner's call fails with
\* TransfersNotPermanentlyEnabled and the account is as it was.
C33_UserThawNeedsBothFlags ==
    receipt.op = "unfreeze_account" =>
        /\ receipt.err = "Ok" =>
                /\ Pre.token_state.transfers_enabled
                /\ Pre.token_state.transfers_permanently_enabled
                /\ Req.user = Pre.ledger[Req.user_token_account].owner
        /\ (/\ Pre.token_state.transfers_enabled
            /\ ~Pre.token_state.transfers_permanently_enabled
            /\ Req.mint = Pre.token_state.token_mint
            /\ Pre.ledger[Req.user_token_account].mint = Pre.token_state.token_mint
            /\ Req.user = Pre.ledger[Req.user_token_account].owner) =>
                (receipt.err = "TransfersNotPermanentlyEnabled" /\ ledger = Pre.ledger)

\* After resume_transfers the owner of an account that a claim froze asked
\* for the thaw and was refused.
C33_Witness ==
    /\ receipt.op = "unfreeze_account"
    /\ receipt.err = "TransfersNotPermanentlyEnabled"
    /\ Pre.token_state.transfers_enabled
    /\ granted[Req.user] > 0
    /\ Pre.ledger[Req.user_token_account].frozen
    /\ ledger[Req.user_token_account].frozen

\* C34. A first claim is allowed at once: a user whose record has
\* total_claims = 0 has both timestamps at 0, and the claim is not refused by
\* the time-lock or spacing checks at any clock value from 0 on, with the
\* time-lock on or off and whatever the claim period is.
C34_FirstClaimNotTimeLocked ==
    (Claimed /\ PreUser.exists /\ PreUser.total_claims = 0) =>
        /\ PreUser.last_claim_timestamp = 0
        /\ PreUser.next_allowed_claim_time = 0
        /\ receipt.err \notin {"ClaimTimeLocked", "ClaimPeriodNotElapsed", "ClaimTooSoon",
                               "ClaimTooFrequent"}
        /\ MetBefore("time") => Precondition("time") = "Ok"
        /\ \A p \in ClaimPeriods, l \in BOOLEAN, now \in ClockValues \cup {FarFuture} :
              time_admission([Pre.token_state EXCEPT !.claim_period_seconds = p,
                                                     !.time_lock_enabled = l],
                             PreUser, now) = "Ok"

\* A first claim succeeded under the time-lock in the last second of what
\* would be the period.
C34_Witness ==
    /\ Succeeded
    /\ PreUser.total_claims = 0
    /\ Pre.token_state.time_lock_enabled
    /\ Pre.clock = 3599

\* C35. Time admission of a user with a prior claim, under the policy in
\* force at the attempt: with the time-lock on the claim passes the time
\* checks exactly when now >= next_allowed_claim_time and
\* now >= last_claim_timestamp + claim_period_seconds; with it off
\* next_allowed_claim_time is not consulted and the claim passes exactly
\* when now > last_claim_timestamp.
C35_TimeAdmissionUnderPolicy ==
    (Claimed /\ MetBefore("time") /\ PreUser.total_claims > 0) =>
        IF Pre.token_state.time_lock_enabled
        THEN (Precondition("time") = "Ok") <=>
                (/\ Pre.clock >= PreUser.next_allowed_claim_time
                 /\ Pre.clock >= PreUser.last_claim_timestamp
                                    + Pre.token_state.claim_period_seconds)
        ELSE (Precondition("time") = "Ok") <=> (Pre.clock > PreUser.last_claim_timestamp)

\* C36. Every user's total_claims equals the user's nonce in every
\* reachable state; so a claim that passed the first nonce check passes the
\* second, InvalidNonceSequence and ClaimCountOverflow are never raised, and
\* at the end of the range the increment of the nonce is the one that fails.
C36_TotalClaimsIsNonce ==
    /\ \A u \in Users : user_data[u].total_claims = user_data[u].nonce
    /\ Claimed =>
          /\ receipt.err \notin {"InvalidNonceSequence", "ClaimCountOverflow"}
          /\ Precondition("nonce") = "Ok" => Precondition("progression") = "Ok"
    /\ \A n \in StartNonces :
          advance_user_data(Veteran("alice", n, TRUE), Deployed(TRUE), 0).err
              = IF n = u64_MAX THEN "NonceOverflow" ELSE "Ok"

\* A second claim succeeded: both counters went from 1 to 2.
C36_Witness ==
    /\ Succeeded
    /\ PreUser.nonce = 1
    /\ PreUser.total_claims = 1
    /\ user_data[Req.user].nonce = 2
    /\ user_data[Req.user].total_claims = 2

\* C37. Once initialize has run, is_initialized stays true and the stored
\* admin stays the same under every instruction: none rotates the admin, and
\* a second initialize, by anyone and with any arguments, fails and leaves
\* admin, flags and claim period as they were.
C37_AdminAndInitializedFixed ==
    /\ (~Idle /\ Pre.token_state.is_initialized) =>
            /\ token_state.is_initialized
            /\ token_state.admin = Pre.token_state.admin
            /\ receipt.op = "initialize" =>
                    (receipt.err # "Ok" /\ token_state = Pre.token_state)
    /\ token_state.is_initialized =>
            \A a \in PolicySigners, p \in ClaimPeriods, l \in BOOLEAN :
                LET again == initialize_result(token_state, a, a, p, l, l)
                IN  again.err # "Ok" /\ again.token_state = token_state

\* A second initialize with another period and time-lock setting, after the
\* mint was created, was refused.
C37_Witness ==
    /\ receipt.op = "initialize"
    /\ Pre.token_state.is_initialized
    /\ Pre.token_state.token_mint # "default"
    /\ Req.claim_period_seconds = 3600
    /\ Pre.token_state.claim_period_seconds = 31536000
    /\ Req.time_lock_enabled # Pre.token_state.time_lock_enabled
    /\ receipt.err = "AlreadyInUse"
    /\ token_state = Pre.token_state

\* C38. A later claim of a user to the destination account that the user's
\* earlier claim left frozen, with no thaw in between, succeeds whenever the
\* nonce, time, expiry and signature preconditions (and every other check
\* made before the ledger calls) are met.
C38_SuccessiveClaimsSucceed ==
    (/\ Claimed
     /\ PreUser.total_claims > 0
     /\ PreAccount.frozen
     /\ MetBut({"ledger"})) => receipt.err = "Ok"

\* C39. The verifier of riyal_contract and its copy in mercle_token give
\* the same answer, Ok or AdminSignatureNotVerified: on the instructions of
\* the receipt, on the same list with the admin's record twice, at every
\* current index from 0 to the end of the list, and for another expected
\* key and signature and another expected message.
C39_VerifierCopiesAgree ==
    receipt.op = "verify_admin_signature_only" =>
        LET ds    == receipt.before \o receipt.core \o receipt.after
            twice == receipt.before \o receipt.core \o receipt.core \o receipt.after
            msg   == build_message(ID, ScannedPayload)
            far   == Neighbour(ScannedPayload)
            sig   == signature_bytes(SignedBy(AdminKey, ScannedPayload))
            agree(tx, idx, m, s, k) ==
                mercle_token_verify_admin_signature_only(tx, idx, m, s, k)
                    = verify_admin_signature_only(tx, idx, m, s, k)
        IN  /\ mercle_token_verify_admin_signature_only(Transaction(ds), Len(ds), msg, sig,
                                                        AdminKey) = receipt.err
            /\ \A idx \in 0..Len(twice) : agree(Transaction(twice), idx, msg, sig, AdminKey)
            /\ agree(Transaction(ds), Len(ds), msg,
                     signature_bytes(SignedBy("alice", ScannedPayload)), "alice")
            /\ agree(Transaction(ds), Len(ds), build_message(ID, far),
                     signature_bytes(SignedBy(AdminKey, far)), AdminKey)

\* The admin's record followed by two well-formed records that do not
\* match it: both copies answered Ok.
C39_Witness ==
    /\ receipt.op = "verify_admin_signature_only"
    /\ receipt.err = "Ok"
    /\ receipt.before = <<>>
    /\ Len(receipt.after) = 2
    /\ receipt.after[1].kind = "ed25519"
    /\ receipt.after[2].kind = "ed25519"
    /\ receipt.after[1] # receipt.after[2]
    /\ mercle_token_verify_admin_signature_only(
            Transaction(receipt.core \o receipt.after), 3,
            build_message(ID, ScannedPayload),
            signature_bytes(SignedBy(AdminKey, ScannedPayload)), AdminKey) = "Ok"

\* C40. The life of the mint and the treasury.  Once a mint is stored the
\* admin's create_token_mint fails with TokenMintAlreadyCreated, so it
\* succeeds at most once; while a treasury is set the admin's create_treasury
\* for the stored mint fails with TreasuryAlreadyCreated; a successful
\* update_token_mint stores the new mint and unsets treasury_account and
\* changes nothing else; with treasury_account unset mint_to_treasury and
\* burn_from_treasury fail and write nothing; and none of these five
\* instructions touches a user's nonce or claim timestamps.
C40_MintAndTreasuryLifecycle ==
    ~Idle =>
        /\ (/\ receipt.op = "create_token_mint"
            /\ Pre.token_state.token_mint # "default"
            /\ Req.admin = Pre.token_state.admin) =>
                (receipt.err = "TokenMintAlreadyCreated" /\ NothingWritten)
        /\ (receipt.op = "create_token_mint" /\ receipt.err = "Ok") =>
                Pre.token_state.token_mint = "default"
        /\ (/\ receipt.op = "create_treasury"
            /\ Pre.token_state.treasury_account # "default"
            /\ Req.admin = Pre.token_state.admin
            /\ Req.mint = Pre.token_state.token_mint) =>
                (receipt.err = "TreasuryAlreadyCreated" /\ NothingWritten)
        /\ (receipt.op = "update_token_mint" /\ receipt.err = "Ok") =>
                /\ token_state = [Pre.token_state EXCEPT !.token_mint = Req.mint,
                                                         !.treasury_account = "default"]
                /\ ledger = Pre.ledger
        /\ (/\ receipt.op \in {"mint_to_treasury", "burn_from_treasury"}
            /\ Pre.token_state.treasury_account = "default") =>
                (receipt.err # "Ok" /\ NothingWritten)
        /\ receipt.op \in {"create_token_mint", "update_token_mint", "create_treasury",
                           "mint_to_treasury", "burn_from_treasury"} =>
                user_data = Pre.user_data

====
